---- MODULE Spec2Model ----
(***************************************************************************)
(* A model of the spreadsheets library: the column/address codec, the grid *)
(* store (add, execute of a Fill, get and the cached corner address), the  *)
(* selection engine (select) and the CellManager fillers.                  *)
(*                                                                         *)
(* Strings are sequences of one-character strings: "A1" is <<"A", "1">>.   *)
(* An Address is a record [col, row]; a Cell is [address, type, value].    *)
(* A Python dict is an insertion-ordered sequence of [key, val] records    *)
(* with distinct keys.                                                     *)
(***************************************************************************)
EXTENDS Integers, Sequences, FiniteSets, TLC

VARIABLES
    content,        \* Spreadsheets.__content : Address -> Cell
    max_address,    \* Spreadsheets.__max_address : <<>> (None) or <<Address>>
    err,            \* the exception raised by the last grid operation, or "none"
    ret,            \* <<>> or <<Cell>> : what the last get returned
    op,             \* the last grid operation called: "new", "add", "execute", "get"
    written,        \* history: Address -> the value most recently written there
    sel_in,         \* the arguments of the select call
    sel_err,        \* the exception select raised, "none", or "pending" before the call
    addresses_str,  \* CellManager.addresses_str of the selection
    select_mode,    \* CellManager.select_mode of the selection
    fill_in,        \* the arguments of the last filler call, <<>> before the first
    fill_err,       \* the exception the last filler raised, or "none"
    dct,            \* the payload (kwargs['content']) of the last Executable built
    cols_width,     \* Spreadsheets.__cols_width : column label -> width
    prev_params,    \* run: <<>> (no 'selected_cells' key) or <<the selected cells>>
    prev_print,     \* run: the feedback line printed by the next iteration
    run_state,      \* "off", "running", "exited", or the exception that ended run
    call,           \* the arguments of a library call, [fn |-> "none"] before it
    result,         \* what the library call returned or raised, <<>> before it
    instanced,      \* _NullType.__instanced
    nulls,          \* the number of _NullType instances constructed
    null_err,       \* the exception the last _NullType() raised, or "none"
    heap            \* the library objects constructed: name -> fields, <<>> before

grid_vars == <<content, max_address, err, ret, op, written>>
sel_vars  == <<sel_in, sel_err, addresses_str, select_mode, fill_in, fill_err, dct>>
console_vars == <<cols_width, prev_params, prev_print, run_state>>
lib_vars  == <<call, result, instanced, nulls, null_err, heap>>
vars      == <<content, max_address, err, ret, op, written,
               sel_in, sel_err, addresses_str, select_mode, fill_in, fill_err, dct,
               cols_width, prev_params, prev_print, run_state,
               call, result, instanced, nulls, null_err, heap>>

----------------------------------------------------------------------------
(* Bounds *)

ColMax == 2         \* col_max the grid is constructed with
RowMax == 2         \* row_max the grid is constructed with
MaxPayload == 2     \* longest Fill payload handed to execute
MaxAnchor == 2      \* largest column number and row of a select anchor or range end
MaxCount == 2       \* largest count handed to select
MaxFill == 3        \* most values handed to fill
MaxStart == 2       \* largest start handed to the int fillers
MaxStep == 2        \* largest step handed to the int fillers
MaxStop == 3        \* largest stop handed to the int fillers
MaxColNum == 1000   \* largest column number handed to get_col_by_num
MaxCells == 1       \* most cells added to the grid before run is called
MaxWidth == 2       \* largest width handed to resize and to the col command
MaxLength == 1      \* largest length handed to the select command

----------------------------------------------------------------------------
(* Strings *)

valid_chars == <<"A", "B", "C", "D", "E", "F", "G", "H", "I", "J", "K", "L", "M",
                 "N", "O", "P", "Q", "R", "S", "T", "U", "V", "W", "X", "Y", "Z">>

base == Len(valid_chars)

DigitChars == <<"0", "1", "2", "3", "4", "5", "6", "7", "8", "9">>

DASH == "-"

COLON == ":"

Range(s) == {s[i] : i \in 1..Len(s)}

isdigit(c) == c \in Range(DigitChars)

Reverse(s) == [i \in 1..Len(s) |-> s[Len(s) + 1 - i]]

\* ord(char) - ord('A'), for a character of valid_chars
LetterIndex(c) == (CHOOSE i \in 1..Len(valid_chars) : valid_chars[i] = c) - 1

\* int(c) for a digit character
DigitValue(c) == (CHOOSE i \in 1..Len(DigitChars) : DigitChars[i] = c) - 1

\* str(n) / f"{n}" of a non-negative integer
RECURSIVE StrNat(_)
StrNat(n) ==
    IF n < 10 THEN <<DigitChars[n + 1]>>
    ELSE Append(StrNat(n \div 10), DigitChars[(n % 10) + 1])

\* str(n) / f"{n}" of an integer
Str(n) == IF n < 0 THEN <<DASH>> \o StrNat(0 - n) ELSE StrNat(n)

\* int(s) of a string of digits
RECURSIVE ParseIntLoop(_, _, _)
ParseIntLoop(s, i, acc) ==
    IF i > Len(s) THEN acc
    ELSE ParseIntLoop(s, i + 1, acc * 10 + DigitValue(s[i]))

ParseInt(s) == ParseIntLoop(s, 1, 0)

----------------------------------------------------------------------------
(* Address codec *)

RECURSIVE get_col_by_num_loop(_, _)
get_col_by_num_loop(num, col) ==
    IF num > 0
    THEN LET n1 == num - 1
         IN  get_col_by_num_loop(n1 \div 26, Append(col, valid_chars[(n1 % base) + 1]))
    ELSE col

\* a conversion that returns the letters in the order the loop produced them
get_col_by_num_unreversed(num) == get_col_by_num_loop(num, <<>>)

get_col_by_num(num) == Reverse(get_col_by_num_loop(num, <<>>))

RECURSIVE get_col_num_loop(_, _, _)
get_col_num_loop(col, i, col_num) ==
    IF i > Len(col) THEN col_num
    ELSE get_col_num_loop(col, i + 1, col_num * base + (LetterIndex(col[i]) + 1))

get_col_num(col) == get_col_num_loop(col, 1, 0)

is_valid_col(col) == \A i \in 1..Len(col) : col[i] \in Range(valid_chars)

\* the index of the first digit of text, or 0
FirstDigit(text) ==
    IF \E i \in 1..Len(text) : isdigit(text[i])
    THEN CHOOSE i \in 1..Len(text) :
            isdigit(text[i]) /\ \A j \in 1..(i - 1) : ~isdigit(text[j])
    ELSE 0

split_address_str(text) ==
    LET d == FirstDigit(text)
    IN  IF d = 0 THEN [col |-> <<>>, row |-> 0]
        ELSE [col |-> SubSeq(text, 1, d - 1),
              row |-> ParseInt(SubSeq(text, d, Len(text)))]

\* bounds is <<>> (None) or <<max column label, max row>>
is_valid_address_str(text, bounds) ==
    LET p == split_address_str(text)
    IN  /\ is_valid_col(p.col)
        /\ p.col # <<>>
        /\ p.row # 0
        /\ bounds # <<>> =>
              /\ get_col_num(p.col) <= get_col_num(bounds[1])
              /\ p.row <= bounds[2]

limits == [col |-> ColMax, row |-> RowMax]

\* Address.__new__: the exception it raises, or "none"
AddressNew(col, row, spreadsheets_limits) ==
    IF ~is_valid_col(col) THEN "NameError"
    ELSE IF get_col_num(col) > spreadsheets_limits.col THEN "NameError"
    ELSE IF row > spreadsheets_limits.row THEN "NameError"
    ELSE "none"

\* Address.__init__
Address(col, row) == [col |-> col, row |-> row]

n_col(address) == get_col_num(address.col)

\* Cell.__new__ / __init__ with cell_type = value.__class__
Cell(address, value) == [address |-> address, type |-> "Integer", value |-> value]

----------------------------------------------------------------------------
(* Grid store *)

NoError == "none"

DuplicateCell == "ValueError: There is already an object at the address"

MissingCell == "ValueError: There is no object at this address"

\* dict[key] = value
Put(d, key, value) == [x \in (DOMAIN d) \cup {key} |-> IF x = key THEN value ELSE d[x]]

\* a corner update that takes every inserted address as the new corner
try_settings_always_replaces(max, address) ==
    [max_address |-> <<address>>, err |-> NoError]

\* Spreadsheets.__try_settings_new_max_cell: the new __max_address and the
\* exception raised
try_settings_new_max_cell(max, address) ==
    IF max = <<>> THEN [max_address |-> <<address>>, err |-> NoError]
    ELSE
      LET m == max[1] IN
      IF (n_col(address) >= n_col(m)) /\ (address.row >= m.row)
      THEN [max_address |-> <<address>>, err |-> NoError]
      ELSE IF (n_col(address) >= n_col(m)) /\ (address.row <= m.row)
      THEN LET c == get_col_by_num(n_col(address))
               e == AddressNew(c, m.row, limits)
           IN  IF e = NoError
               THEN [max_address |-> <<Address(c, m.row)>>, err |-> NoError]
               ELSE [max_address |-> max, err |-> e]
      ELSE IF (n_col(address) <= n_col(m)) /\ (address.row >= m.row)
      THEN LET e == AddressNew(m.col, address.row, limits)
           IN  IF e = NoError
               THEN [max_address |-> <<Address(m.col, address.row)>>, err |-> NoError]
               ELSE [max_address |-> max, err |-> e]
      ELSE [max_address |-> max, err |-> NoError]

\* a forced insertion that keeps the cell already stored at the address
fadd_keeps_stored(g, cell) ==
    LET t == try_settings_new_max_cell(g.max_address, cell.address)
    IN  [content |-> IF cell.address \in DOMAIN g.content
                     THEN g.content
                     ELSE Put(g.content, cell.address, cell),
         max_address |-> t.max_address,
         err |-> t.err]

\* Spreadsheets.__fadd on the grid state g = [content, max_address]
fadd(g, cell) ==
    LET t == try_settings_new_max_cell(g.max_address, cell.address)
    IN  [content |-> Put(g.content, cell.address, cell),
         max_address |-> t.max_address,
         err |-> t.err]

\* an add without the occupied-address check
add_unchecked(g, cell) ==
    LET t == try_settings_new_max_cell(g.max_address, cell.address)
    IN  [content |-> Put(g.content, cell.address, cell),
         max_address |-> t.max_address,
         err |-> t.err]

\* Spreadsheets.add on the grid state g = [content, max_address]
add(g, cell) ==
    IF cell.address \in DOMAIN g.content
    THEN [content |-> g.content, max_address |-> g.max_address, err |-> DuplicateCell]
    ELSE LET t == try_settings_new_max_cell(g.max_address, cell.address)
         IN  [content |-> Put(g.content, cell.address, cell),
              max_address |-> t.max_address,
              err |-> t.err]

\* Spreadsheets.__execute_filling from entry i of the payload d on; done counts
\* the entries whose cell was stored
RECURSIVE execute_filling(_, _, _, _)
execute_filling(g, d, i, done) ==
    IF i > Len(d)
    THEN [content |-> g.content, max_address |-> g.max_address,
          err |-> NoError, done |-> done]
    ELSE
      LET p == split_address_str(d[i].key)
          e == AddressNew(p.col, p.row, limits)
      IN  IF e # NoError
          THEN [content |-> g.content, max_address |-> g.max_address,
                err |-> e, done |-> done]
          ELSE
            LET f == fadd(g, Cell(Address(p.col, p.row), d[i].val))
            IN  IF f.err # NoError
                THEN [content |-> f.content, max_address |-> f.max_address,
                      err |-> f.err, done |-> done + 1]
                ELSE execute_filling([content |-> f.content,
                                      max_address |-> f.max_address],
                                     d, i + 1, done + 1)

\* Spreadsheets.execute of Executable(ExecutableInstructions.Fill, content = d)
execute(g, d) == execute_filling(g, d, 1, 0)

\* Spreadsheets.get: the cell returned and the exception raised
get(g, address) ==
    IF address \in DOMAIN g.content
    THEN [ret |-> <<g.content[address]>>, err |-> NoError]
    ELSE [ret |-> <<>>, err |-> MissingCell]

----------------------------------------------------------------------------
(* Selection engine *)

INVALID_CELL_ERR_TEXT == "ValueError: Invalid cell address"

\* str.split(sep)
RECURSIVE SplitLoop(_, _, _, _)
SplitLoop(s, sep, i, cur) ==
    IF i > Len(s) THEN <<cur>>
    ELSE IF s[i] = sep THEN <<cur>> \o SplitLoop(s, sep, i + 1, <<>>)
    ELSE SplitLoop(s, sep, i + 1, Append(cur, s[i]))

split(s, sep) == SplitLoop(s, sep, 1, <<>>)

\* list(range(a, b))
PyRange(a, b) == [i \in 1..(IF b > a THEN b - a ELSE 0) |-> a + i - 1]

\* what select returns: the exception raised, or the CellManager set_selection built
Raised(e) == [err |-> e, addresses_str |-> <<>>, select_mode |-> "Nil"]

set_selection(addrs, select_format) ==
    [err |-> NoError, addresses_str |-> addrs, select_mode |-> select_format]

\* a OneDim expansion whose ranges leave out the last column or row
select_OneDim_exclusive(parts) ==
    IF DASH \in Range(parts[1])
    THEN LET cols == split(parts[1], DASH)
         IN  IF Len(cols) # 2 THEN Raised("ValueError: unpack")
             ELSE LET col_ns == PyRange(get_col_num(cols[1]), get_col_num(cols[2]))
                  IN  set_selection(
                          [i \in 1..Len(col_ns) |-> get_col_by_num(col_ns[i]) \o parts[2]],
                          "OneDim")
    ELSE IF DASH \in Range(parts[2])
    THEN LET rows == split(parts[2], DASH)
         IN  IF Len(rows) # 2 THEN Raised("ValueError: unpack")
             ELSE IF rows[1] = <<>> \/ rows[2] = <<>> THEN Raised("ValueError: int")
             ELSE LET rs == PyRange(ParseInt(rows[1]), ParseInt(rows[2]))
                  IN  set_selection([i \in 1..Len(rs) |-> parts[1] \o Str(rs[i])], "OneDim")
    ELSE set_selection(<<>>, "OneDim")

\* select, case SelectFormats.OneDim
select_OneDim(parts) ==
    IF DASH \in Range(parts[1])
    THEN LET cols == split(parts[1], DASH)
         IN  IF Len(cols) # 2 THEN Raised("ValueError: unpack")
             ELSE LET col_ns == PyRange(get_col_num(cols[1]), get_col_num(cols[2]) + 1)
                  IN  set_selection(
                          [i \in 1..Len(col_ns) |-> get_col_by_num(col_ns[i]) \o parts[2]],
                          "OneDim")
    ELSE IF DASH \in Range(parts[2])
    THEN LET rows == split(parts[2], DASH)
         IN  IF Len(rows) # 2 THEN Raised("ValueError: unpack")
             ELSE IF rows[1] = <<>> \/ rows[2] = <<>> THEN Raised("ValueError: int")
             ELSE LET rs == PyRange(ParseInt(rows[1]), ParseInt(rows[2]) + 1)
                  IN  set_selection([i \in 1..Len(rs) |-> parts[1] \o Str(rs[i])], "OneDim")
    ELSE set_selection(<<>>, "OneDim")

\* select, case SelectFormats.TwoDim: columns outer, rows inner
select_TwoDim(parts) ==
    LET cols == split(parts[1], DASH)
        rows == split(parts[2], DASH)
    IN  IF Len(cols) # 2 \/ Len(rows) # 2 THEN Raised("ValueError: unpack")
        ELSE IF rows[1] = <<>> \/ rows[2] = <<>> THEN Raised("ValueError: int")
        ELSE LET col_ns == PyRange(get_col_num(cols[1]), get_col_num(cols[2]) + 1)
                 rs == PyRange(ParseInt(rows[1]), ParseInt(rows[2]) + 1)
             IN  set_selection(
                     [i \in 1..(Len(col_ns) * Len(rs)) |->
                         get_col_by_num(col_ns[((i - 1) \div Len(rs)) + 1])
                             \o Str(rs[((i - 1) % Len(rs)) + 1])],
                     "TwoDim")

\* select with direction None: the select_format found, then the match on it
select_format_of(address_range, parts) ==
    IF DASH \in Range(address_range)
    THEN IF Len(parts) # 2 THEN "Error"
         ELSE LET chars == split(parts[1], DASH)
                  digits == split(parts[2], DASH)
              IN  IF \E i \in 1..Len(chars) : \E j \in 1..Len(chars[i]) :
                         chars[i][j] \notin Range(valid_chars)
                  THEN "Error"
                  ELSE IF \E i \in 1..Len(digits) : \E j \in 1..Len(digits[i]) :
                         ~isdigit(digits[i][j])
                  THEN "Error"
                  ELSE IF DASH \in Range(parts[1]) /\ DASH \in Range(parts[2]) THEN "TwoDim"
                  ELSE IF DASH \in Range(parts[1]) \/ DASH \in Range(parts[2]) THEN "OneDim"
                  ELSE IF is_valid_address_str(address_range, <<>>) THEN "ZeroDim"
                  ELSE "Nil"
    ELSE "Nil"

select_no_direction(address_range) ==
    LET parts == split(address_range, COLON)
        select_format == select_format_of(address_range, parts)
    IN  CASE select_format = "Error"   -> Raised(INVALID_CELL_ERR_TEXT)
          [] select_format = "ZeroDim" -> set_selection(<<address_range>>, "ZeroDim")
          [] select_format = "OneDim"  -> select_OneDim(parts)
          [] select_format = "TwoDim"  -> select_TwoDim(parts)
          [] select_format = "Nil"     -> Raised(INVALID_CELL_ERR_TEXT)

\* select, case SelectFormats.Line
select_Line(col, row, col_n, direction, number) ==
    CASE direction = "Left" ->
            LET ns == PyRange(col_n - number, col_n + 1)
            IN  [i \in 1..Len(ns) |-> get_col_by_num(ns[i]) \o Str(row)]
      [] direction = "Right" ->
            LET ns == PyRange(col_n, col_n + number + 1)
            IN  [i \in 1..Len(ns) |-> get_col_by_num(ns[i]) \o Str(row)]
      [] direction = "Up" ->
            LET rs == PyRange(row - number, row + 1)
            IN  [i \in 1..Len(rs) |-> col \o Str(rs[i])]
      [] direction = "Down" ->
            LET rs == PyRange(row, row + number + 1)
            IN  [i \in 1..Len(rs) |-> col \o Str(rs[i])]

Horizontal == {"Left", "Right"}

Vertical == {"Up", "Down"}

\* the column numbers / rows one direction of a Rectangle runs over
rectangle_run(from, direction, number) ==
    IF direction \in {"Left", "Up"}
    THEN PyRange(from - number, from + 1)
    ELSE PyRange(from, from + number + 1)

\* select, case SelectFormats.Rectangle: the first direction is the outer loop;
\* the same-axis error is raised inside it
select_Rectangle(col, row, col_n, direction, number) ==
    LET first_dir == direction[1]
        second_dir == direction[2]
    IN  IF first_dir \in Horizontal
        THEN LET ns == rectangle_run(col_n, first_dir, number[1])
                 rs == rectangle_run(row, second_dir, number[2])
             IN  IF Len(ns) = 0 THEN set_selection(<<>>, "Rectangle")
                 ELSE IF second_dir \notin Vertical
                 THEN Raised("ValueError: Cannot choose two direction in the same axis")
                 ELSE set_selection(
                          [i \in 1..(Len(ns) * Len(rs)) |->
                              get_col_by_num(ns[((i - 1) \div Len(rs)) + 1])
                                  \o Str(rs[((i - 1) % Len(rs)) + 1])],
                          "Rectangle")
        ELSE LET rs == rectangle_run(row, first_dir, number[1])
                 ns == rectangle_run(col_n, second_dir, number[2])
             IN  IF Len(rs) = 0 THEN set_selection(<<>>, "Rectangle")
                 ELSE IF second_dir \notin Horizontal
                 THEN Raised("ValueError: Cannot choose two direction in the same axis")
                 ELSE set_selection(
                          [i \in 1..(Len(rs) * Len(ns)) |->
                              get_col_by_num(ns[((i - 1) % Len(ns)) + 1])
                                  \o Str(rs[((i - 1) \div Len(ns)) + 1])],
                          "Rectangle")

\* select with a direction; direction and number are <<x>> or the tuple <<x, y>>
select_direction(address_range, direction, number) ==
    IF ~is_valid_address_str(address_range, <<>>) THEN Raised(INVALID_CELL_ERR_TEXT)
    ELSE LET p == split_address_str(address_range)
         IN  IF Len(direction) = 2 /\ Len(number) = 2
             THEN select_Rectangle(p.col, p.row, get_col_num(p.col), direction, number)
             ELSE IF Len(direction) = 1 /\ Len(number) = 1
             THEN set_selection(
                      select_Line(p.col, p.row, get_col_num(p.col), direction[1], number[1]),
                      "Line")
             ELSE Raised("TypeError: Undefined select format for a select function")

\* select(address_range, direction, number); <<>> is None
select(address_range, direction, number) ==
    IF (direction = <<>> /\ number # <<>>) \/ (direction # <<>> /\ number = <<>>)
    THEN Raised("ValueError: Direction and number must be provided at the same time")
    ELSE IF direction = <<>> THEN select_no_direction(address_range)
    ELSE select_direction(address_range, direction, number)

----------------------------------------------------------------------------
(* CellManager fillers; a dict is a sequence of [key, val] with distinct keys *)

HasKey(d, key) == \E i \in 1..Len(d) : d[i].key = key

Lookup(d, key) == d[CHOOSE i \in 1..Len(d) : d[i].key = key].val

\* dct[key] = value
DictSet(d, key, value) ==
    IF HasKey(d, key)
    THEN [i \in 1..Len(d) |-> IF d[i].key = key THEN [key |-> key, val |-> value] ELSE d[i]]
    ELSE Append(d, [key |-> key, val |-> value])

Built(d) == [err |-> NoError, content |-> d]

NotBuilt(e) == [err |-> e, content |-> <<>>]

\* CellManager.fill
RECURSIVE fill_loop(_, _, _, _)
fill_loop(addrs, values, index, d) ==
    IF index >= Len(values) THEN d
    ELSE fill_loop(addrs, values, index + 1, DictSet(d, addrs[index + 1], values[index + 1]))

fill(addrs, values) ==
    IF Len(values) # Len(addrs) THEN NotBuilt("ValueError: number of values")
    ELSE Built(fill_loop(addrs, values, 0, <<>>))

\* CellManager.ascending_int; stop is <<>> (None) or <<n>>
RECURSIVE ascending_loop(_, _, _, _, _, _)
ascending_loop(addrs, start, step, stop, index, d) ==
    IF index >= Len(addrs) THEN d
    ELSE LET value == start + step * index
         IN  IF (stop # <<>>) /\ (stop[1] < value) THEN d
             ELSE ascending_loop(addrs, start, step, stop, index + 1,
                                 DictSet(d, addrs[index + 1], value))

ascending_int(addrs, start, step, stop) ==
    IF (stop # <<>>) /\ (start > stop[1])
    THEN NotBuilt("ValueError: stop point cannot be lower than start")
    ELSE Built(ascending_loop(addrs, start, step, stop, 0, <<>>))

\* CellManager.descending_int
RECURSIVE descending_loop(_, _, _, _, _, _)
descending_loop(addrs, start, step, stop, index, d) ==
    IF index >= Len(addrs) THEN d
    ELSE LET value == start - step * index
         IN  IF (stop # <<>>) /\ (stop[1] < value) THEN d
             ELSE descending_loop(addrs, start, step, stop, index + 1,
                                  DictSet(d, addrs[index + 1], value))

descending_int(addrs, start, step, stop) ==
    IF (stop # <<>>) /\ (start < stop[1])
    THEN NotBuilt("ValueError: stop point cannot be higher than start")
    ELSE Built(descending_loop(addrs, start, step, stop, 0, <<>>))

----------------------------------------------------------------------------
(* Inputs *)

MaxValue == 2       \* largest Integer a caller stores

Values == 1..MaxValue

\* the column labels and rows a caller tries, one past the limits included
TriedCols == {get_col_by_num(n) : n \in 1..(ColMax + 1)}

TriedRows == 1..(RowMax + 1)

\* the address strings of a payload: every address within the limits, one past
\* the column limit and one past the row limit
PayloadKeys ==
    {get_col_by_num(n) \o Str(r) : n \in 1..ColMax, r \in 1..RowMax}
    \cup {get_col_by_num(ColMax + 1) \o Str(1), get_col_by_num(1) \o Str(RowMax + 1)}

PayloadEntries == {[key |-> k, val |-> v] : k \in PayloadKeys, v \in Values}

\* the dicts of at most MaxPayload entries
RECURSIVE PayloadsOfLen(_)
PayloadsOfLen(n) ==
    IF n = 0 THEN {<<>>}
    ELSE {Append(d, e) : d \in PayloadsOfLen(n - 1), e \in PayloadEntries}

Keys(d) == {d[i].key : i \in 1..Len(d)}

Payloads == UNION {{d \in PayloadsOfLen(n) : Cardinality(Keys(d)) = n} : n \in 0..MaxPayload}

----------------------------------------------------------------------------
(* Grid operations *)

Grid == [content |-> content, max_address |-> max_address]

EmptyDict == [x \in {} |-> 0]

\* the history after the first n entries of d were written
RECURSIVE WriteAll(_, _, _)
WriteAll(w, d, n) ==
    IF n = 0 THEN w
    ELSE LET p == split_address_str(d[n].key)
         IN  Put(WriteAll(w, d, n - 1), Address(p.col, p.row), d[n].val)

\* sheets.add(Cell(Address(col, row, sheets.limits_dict()), Integer, value))
Add(col, row, value) ==
    /\ IF AddressNew(col, row, limits) # NoError
       THEN /\ err' = AddressNew(col, row, limits)
            /\ UNCHANGED <<content, max_address, written>>
       ELSE LET a == add(Grid, Cell(Address(col, row), value))
            IN  /\ content' = a.content
                /\ max_address' = a.max_address
                /\ err' = a.err
                /\ written' = IF a.content # content
                              THEN Put(written, Address(col, row), value)
                              ELSE written
    /\ ret' = <<>>
    /\ op' = "add"
    /\ UNCHANGED <<sel_vars, console_vars, lib_vars>>

\* sheets.execute(Executable(ExecutableInstructions.Fill, content = d))
Execute(d) ==
    LET x == execute(Grid, d)
    IN  /\ content' = x.content
        /\ max_address' = x.max_address
        /\ err' = x.err
        /\ ret' = <<>>
        /\ written' = WriteAll(written, d, x.done)
        /\ op' = "execute"
        /\ UNCHANGED <<sel_vars, console_vars, lib_vars>>

\* sheets.get(Address(col, row, sheets.limits_dict()))
Get(col, row) ==
    /\ IF AddressNew(col, row, limits) # NoError
       THEN /\ err' = AddressNew(col, row, limits)
            /\ ret' = <<>>
       ELSE LET r == get(Grid, Address(col, row))
            IN  /\ err' = r.err
                /\ ret' = r.ret
    /\ UNCHANGED <<content, max_address, written>>
    /\ op' = "get"
    /\ UNCHANGED <<sel_vars, console_vars, lib_vars>>

AddStep == \E col \in TriedCols, row \in TriedRows, value \in Values : Add(col, row, value)

ExecuteStep == \E d \in Payloads : Execute(d)

GetStep == \E col \in TriedCols, row \in TriedRows : Get(col, row)

GridInit ==
    /\ content = EmptyDict
    /\ max_address = <<>>
    /\ err = NoError
    /\ ret = <<>>
    /\ op = "new"
    /\ written = EmptyDict

NoSelect == [address_range |-> <<>>, direction |-> <<>>, number |-> <<>>]

NoFiller == [fn |-> "none", values |-> <<>>, start |-> 0, step |-> 0, stop |-> <<>>]

\* no select call is made
SelInit ==
    /\ sel_in = NoSelect
    /\ sel_err = NoError
    /\ addresses_str = <<>>
    /\ select_mode = "Nil"
    /\ fill_in = NoFiller
    /\ fill_err = NoError
    /\ dct = <<>>

NoCall == [fn |-> "none"]

\* run is not called
ConsoleOff ==
    /\ cols_width = EmptyDict
    /\ prev_params = <<>>
    /\ prev_print = [text |-> "", args |-> <<>>]
    /\ run_state = "off"

\* no library call is made; the libs module is imported and holds its Null
LibIdle ==
    /\ call = NoCall
    /\ result = <<>>
    /\ instanced = FALSE
    /\ nulls = 1
    /\ null_err = NoError
    /\ heap = <<>>

Init == GridInit /\ SelInit /\ ConsoleOff /\ LibIdle

Next == AddStep \/ ExecuteStep \/ GetStep

Spec == Init /\ [][Next]_vars

----------------------------------------------------------------------------
(* Selection operations: select(...) once, then any fillers on its CellManager *)

\* the label of column n written out, for n up to 702 ("ZZ")
ColLabel(n) ==
    IF n <= 26 THEN <<valid_chars[n]>>
    ELSE <<valid_chars[(n - 1) \div 26], valid_chars[((n - 1) % 26) + 1]>>

Directions == {"Left", "Right", "Up", "Down"}

Anchors == {ColLabel(c) \o Str(r) : c \in 1..MaxAnchor, r \in 0..MaxAnchor}

\* the columns a range expression names: the first ones and the step from Z to AA
RangeCols == (1..MaxAnchor) \cup {26, 27}

ColRangeExpr(x, y, r) == ColLabel(x) \o <<DASH>> \o ColLabel(y) \o <<COLON>> \o Str(r)

RowRangeExpr(c, a, b) == ColLabel(c) \o <<COLON>> \o Str(a) \o <<DASH>> \o Str(b)

TwoDimExpr(x, y, a, b) ==
    ColLabel(x) \o <<DASH>> \o ColLabel(y) \o <<COLON>> \o Str(a) \o <<DASH>> \o Str(b)

RangeExprs ==
    {ColRangeExpr(x, y, r) : x \in RangeCols, y \in RangeCols, r \in 0..MaxAnchor}
    \cup {RowRangeExpr(c, a, b) : c \in 1..MaxAnchor, a \in 0..(MaxAnchor + 1), b \in 0..(MaxAnchor + 1)}
    \cup {TwoDimExpr(x, y, a, b) : x \in 1..MaxAnchor, y \in 1..MaxAnchor,
                                   a \in 1..MaxAnchor, b \in 1..MaxAnchor}
    \cup {<<"A", "-", "B">>, <<"A", "-", ":", "1">>, <<"A", ":", "1", "-">>,
          <<"A", "-", "B", ":", "1", ":", "2">>}

\* number is a tuple[int, int]: a count may be negative
RectangleCounts == (0 - 1)..MaxCount

SelectInputs ==
    {[address_range |-> e, direction |-> <<>>, number |-> <<>>] : e \in RangeExprs \cup Anchors}
    \cup {[address_range |-> a, direction |-> <<d>>, number |-> <<k>>] :
              a \in Anchors, d \in Directions, k \in 0..MaxCount}
    \cup {[address_range |-> a, direction |-> <<d1, d2>>, number |-> <<k1, k2>>] :
              a \in Anchors, d1 \in Directions, d2 \in Directions,
              k1 \in RectangleCounts, k2 \in RectangleCounts}
    \cup {[address_range |-> a, direction |-> <<d>>, number |-> <<>>] :
              a \in Anchors, d \in Directions}

Stops == {<<>>} \cup {<<n>> : n \in 0..MaxStop}

RECURSIVE ValueLists(_)
ValueLists(n) ==
    IF n = 0 THEN {<<>>}
    ELSE ValueLists(n - 1) \cup {Append(l, v) : l \in ValueLists(n - 1), v \in Values}

\* the caller picks the arguments of select
SelSpecInit ==
    /\ GridInit
    /\ ConsoleOff
    /\ LibIdle
    /\ sel_in \in SelectInputs
    /\ sel_err = "pending"
    /\ addresses_str = <<>>
    /\ select_mode = "Nil"
    /\ fill_in = NoFiller
    /\ fill_err = NoError
    /\ dct = <<>>

\* manager = select(address_range, direction, number)
Select ==
    /\ sel_err = "pending"
    /\ LET m == select(sel_in.address_range, sel_in.direction, sel_in.number)
       IN  /\ sel_err' = m.err
           /\ addresses_str' = m.addresses_str
           /\ select_mode' = m.select_mode
    /\ UNCHANGED <<sel_in, fill_in, fill_err, dct>>
    /\ UNCHANGED <<grid_vars, console_vars, lib_vars>>

\* a filler call on the manager stores its arguments and what it built
Filler(args, built) ==
    /\ sel_err = NoError
    /\ fill_in' = args
    /\ fill_err' = built.err
    /\ dct' = built.content
    /\ UNCHANGED <<sel_in, sel_err, addresses_str, select_mode>>
    /\ UNCHANGED <<grid_vars, console_vars, lib_vars>>

\* manager.fill(*values)
Fill(values) ==
    Filler([fn |-> "fill", values |-> values, start |-> 0, step |-> 0, stop |-> <<>>],
           fill(addresses_str, values))

\* manager.ascending_int(start = start, step = step, stop = stop)
AscendingInt(start, step, stop) ==
    Filler([fn |-> "ascending_int", values |-> <<>>, start |-> start, step |-> step,
            stop |-> stop],
           ascending_int(addresses_str, start, step, stop))

\* manager.descending_int(start = start, step = step, stop = stop)
DescendingInt(start, step, stop) ==
    Filler([fn |-> "descending_int", values |-> <<>>, start |-> start, step |-> step,
            stop |-> stop],
           descending_int(addresses_str, start, step, stop))

FillStep == \E values \in ValueLists(MaxFill) : Fill(values)

AscendingIntStep ==
    \E start \in 0..MaxStart, step \in 0..MaxStep, stop \in Stops :
        AscendingInt(start, step, stop)

DescendingIntStep ==
    \E start \in 0..MaxStart, step \in 0..MaxStep, stop \in Stops :
        DescendingInt(start, step, stop)

SelNext == Select \/ FillStep \/ AscendingIntStep \/ DescendingIntStep

SelSpec == SelSpecInit /\ [][SelNext]_vars

\* select alone: the caller makes the call and keeps the manager as returned
SelectNext == Select

SelectSpec == SelSpecInit /\ [][SelectNext]_vars

----------------------------------------------------------------------------
(* Console: the command table and the parsing of one input line.           *)
(* A line is the list args = input('$: ').strip().split(' ') of its tokens. *)

lower_chars == <<"a", "b", "c", "d", "e", "f", "g", "h", "i", "j", "k", "l", "m",
                 "n", "o", "p", "q", "r", "s", "t", "u", "v", "w", "x", "y", "z">>

\* str.capitalize() of one character
capitalize(c) ==
    IF c \in Range(lower_chars)
    THEN valid_chars[CHOOSE i \in 1..Len(lower_chars) : lower_chars[i] = c]
    ELSE c

\* the table Commands: per member its 'name', 'argc', 'argv' and 'param_req'
\* (a range(lo, hi) as <<lo, hi>>); Nil has the key 'params' and no 'param_req'
Commands ==
    [Nil      |-> [name |-> <<>>, argc |-> {}, argv |-> {}, param_req |-> <<>>],
     Exit     |-> [name |-> <<"e", "x", "i", "t">>, argc |-> {}, argv |-> {},
                   param_req |-> <<0, 1>>],
     Get      |-> [name |-> <<"g", "e", "t">>, argc |-> {}, argv |-> {},
                   param_req |-> <<0, 1>>],
     Col      |-> [name |-> <<"c", "o", "l">>, argc |-> {}, argv |-> {},
                   param_req |-> <<2, 3>>],
     Select   |-> [name |-> <<"s", "e", "l", "e", "c", "t">>,
                   argc |-> {<<"-", "1">>, <<"-", "2">>},
                   argv |-> {<<"-", "-", "l">>, <<"-", "-", "r">>,
                             <<"-", "-", "u">>, <<"-", "-", "d">>},
                   param_req |-> <<1, 11>>],
     Deselect |-> [name |-> <<"d", "e", "s", "e", "l", "e", "c", "t">>,
                   argc |-> {}, argv |-> {}, param_req |-> <<0, 1>>]]

\* the member names of Commands as getattr sees them
MemberNames ==
    [Nil      |-> <<"N", "i", "l">>,
     Exit     |-> <<"E", "x", "i", "t">>,
     Get      |-> <<"G", "e", "t">>,
     Col      |-> <<"C", "o", "l">>,
     Select   |-> <<"S", "e", "l", "e", "c", "t">>,
     Deselect |-> <<"D", "e", "s", "e", "l", "e", "c", "t">>]

\* a message with its formatted-in values
Msg(text, args) == [text |-> text, args |-> args]

\* an exception: the loop turns a ValueError into the feedback line, any
\* other kind ends run
Raise(kind, msg) == [kind |-> kind, msg |-> msg]

NoRaise == Raise("none", Msg("", <<>>))

\* what __ask_input_command returns
Parsed(cmd, argc, argv, params, name) ==
    [raised |-> NoRaise, cmd |-> cmd, argc |-> argc, argv |-> argv,
     params |-> params, name |-> name]

ParseRaised(kind, msg) ==
    [raised |-> Raise(kind, msg), cmd |-> "Nil", argc |-> <<>>, argv |-> <<>>,
     params |-> <<>>, name |-> <<>>]

\* __ask_input_command, the loop over args[1:] and the parameter-count check
RECURSIVE classify_args(_, _, _, _, _, _)
classify_args(cmd, args, i, argc, argv, params) ==
    IF i > Len(args)
    THEN IF Commands[cmd].param_req = <<>>
         THEN ParseRaised("KeyError", Msg("param_req", <<>>))
         ELSE IF ~(Len(params) >= Commands[cmd].param_req[1]
                   /\ Len(params) < Commands[cmd].param_req[2])
         THEN ParseRaised("ValueError", Msg("The command does not meat param amount", <<>>))
         ELSE Parsed(cmd, argc, argv, params, args[1])
    ELSE LET arg == args[i] IN
         IF Len(arg) = 0 THEN ParseRaised("IndexError", Msg("string index out of range", <<>>))
         ELSE IF arg[1] # "-"
         THEN classify_args(cmd, args, i + 1, argc, argv, Append(params, arg))
         ELSE IF Len(arg) = 1
         THEN ParseRaised("IndexError", Msg("string index out of range", <<>>))
         ELSE IF arg[2] # "-"
         THEN IF arg \notin Commands[cmd].argc
              THEN ParseRaised("ValueError", Msg("Unrecognized argc: {}", <<arg>>))
              ELSE classify_args(cmd, args, i + 1, argc \o SubSeq(arg, 2, Len(arg)),
                                 argv, params)
         ELSE IF arg \notin Commands[cmd].argv
              THEN ParseRaised("ValueError", Msg("Unrecognized argv: {}", <<arg>>))
              ELSE classify_args(cmd, args, i + 1, argc,
                                 Append(argv, SubSeq(arg, 3, Len(arg))), params)

\* Spreadsheets.__ask_input_command on the tokens of the line read
ask_input_command(args) ==
    LET cmd == args[1] IN
    IF Len(cmd) = 0 THEN Parsed("Nil", <<>>, <<>>, <<>>, <<>>)
    ELSE LET attr == <<capitalize(cmd[1])>> \o SubSeq(cmd, 2, Len(cmd)) IN
         IF \A m \in DOMAIN MemberNames : MemberNames[m] # attr
         THEN ParseRaised("ValueError", Msg("Unknown command: {}", <<cmd>>))
         ELSE LET command == CHOOSE m \in DOMAIN MemberNames : MemberNames[m] = attr IN
              IF Len(args) > 1
              THEN classify_args(command, args, 2, <<>>, <<>>, <<>>)
              ELSE Parsed(command, <<>>, <<>>, <<>>, cmd)

\* Spreadsheets.__check_allowed_args(command, **dargs): the exception it raises
check_allowed_args(command, p) ==
    IF p.name = Commands[command].name
    THEN IF Cardinality(Range(p.argc)) - Cardinality(Commands[command].argc) > 0
         THEN Raise("ValueError", Msg("{} must be empty at {} command",
                                      <<<<"a", "r", "g", "c">>, Commands[command].name>>))
         ELSE IF Cardinality(Range(p.argv)) - Cardinality(Commands[command].argv) > 0
         THEN Raise("ValueError", Msg("{} must be empty at {} command",
                                      <<<<"a", "r", "g", "v">>, Commands[command].name>>))
         ELSE NoRaise
    ELSE NoRaise

----------------------------------------------------------------------------
(* Console: one iteration of the loop of Spreadsheets.run *)

\* libs.utils.void: takes a value and does nothing with it
void(x) == TRUE

\* Spreadsheets.__corner_address: the exception it raises
corner_address_raises(g) ==
    IF g.max_address = <<>>
    THEN Raise("ValueError",
               Msg("Spreadsheets are empty. Cannot use corner_value method", <<>>))
    ELSE NoRaise

\* ", ".join(strs)
RECURSIVE join(_)
join(strs) ==
    IF Len(strs) = 0 THEN <<>>
    ELSE IF Len(strs) = 1 THEN strs[1]
    ELSE strs[1] \o <<",", " ">> \o join(Tail(strs))

\* str.isdigit() of a token
token_isdigit(tok) == Len(tok) > 0 /\ \A i \in 1..Len(tok) : isdigit(tok[i])

\* what one iteration leaves behind
Outcome(cw, pp, print, state) ==
    [cols_width |-> cw, prev_params |-> pp, prev_print |-> print, run_state |-> state]

\* `cmd not in (Commands.Get)`: (Commands.Get) is the member, not a tuple, so
\* the test iterates the member through Commands.__getitem__(0), which raises
\* KeyError for every cmd
not_in_member(cmd, member) == Raise("KeyError", Msg("0", <<>>))

\* run, the try block on prev_params['selected_cells']: "rejected" when the
\* iteration ends with the deselect-first feedback, "pass" when the except
\* KeyError clause is taken or the test lets the command through
selection_guard(pp, cmd) ==
    IF pp = <<>> THEN "pass"
    ELSE IF void(pp[1]) /\ not_in_member(cmd, "Get").kind = "KeyError" THEN "pass"
    ELSE "rejected"

\* Spreadsheets.__check_is_command: `param in Commands` is False for every
\* string (no member has a string value), so nothing is raised
check_is_command(params) == NoRaise

\* a resize that forgets the overrides of the other columns
resize_alone(cw, name, new_value) == [x \in {name} |-> new_value]

\* Spreadsheets.resize
resize(cw, name, new_value) == Put(cw, name, new_value)

\* Spreadsheets.__return_cells_through_selection from address i of the
\* selection on: the cells found, or the exception raised
RECURSIVE cells_through_selection(_, _, _, _)
cells_through_selection(g, addrs, i, cells) ==
    IF i > Len(addrs) THEN [raised |-> NoRaise, cells |-> cells]
    ELSE LET p == split_address_str(addrs[i])
             e == AddressNew(p.col, p.row, limits)
         IN  IF e # NoError
             THEN [raised |-> Raise(e, Msg("Can't name address {}", <<addrs[i]>>)),
                   cells |-> cells]
             ELSE IF Address(p.col, p.row) \in DOMAIN g.content
             THEN cells_through_selection(g, addrs, i + 1,
                      Append(cells, g.content[Address(p.col, p.row)]))
             ELSE cells_through_selection(g, addrs, i + 1, cells)

return_cells_through_selection(g, address_str, direction, length) ==
    LET m == select(address_str, <<direction>>, <<length>>)
    IN  IF m.err # NoError
        THEN [raised |-> Raise("ValueError", Msg(m.err, <<>>)), cells |-> <<>>]
        ELSE cells_through_selection(g, m.addresses_str, 1, <<>>)

\* str(cell.address)
address_str_of(cell) == cell.address.col \o Str(cell.address.row)

\* the direction a --l / --r / --u / --d flag stands for
DirectionOf(flag) ==
    CASE flag = <<"l">> -> "Left"
      [] flag = <<"r">> -> "Right"
      [] flag = <<"u">> -> "Up"
      [] flag = <<"d">> -> "Down"

\* run, case Commands.Col
run_Col(g, cw, pp, print, p) ==
    IF Len(p.params) = 0 THEN Outcome(cw, pp, print, "IndexError")
    ELSE IF ~is_valid_col(p.params[1])
    THEN Outcome(cw, pp, Msg("First param must be column", <<>>), "running")
    ELSE IF Len(p.params) < 2 THEN Outcome(cw, pp, print, "IndexError")
    ELSE IF ~token_isdigit(p.params[2])
    THEN Outcome(cw, pp, Msg("Second param must be an integer", <<>>), "running")
    ELSE Outcome(resize(cw, p.params[1], ParseInt(p.params[2])), pp,
                 Msg("Width for column {} set to {} chars",
                     <<p.params[1], Str(ParseInt(p.params[2]))>>),
                 "running")

\* run, case Commands.Select with argc[0] = '1'
run_Select_1(g, cw, pp, print, p) ==
    LET name == Commands[p.cmd].name IN
    IF Len(p.params) > 2
    THEN Outcome(cw, pp, Msg("Cannot have more than two params in '-1' mode: {}", <<name>>),
                 "running")
    ELSE IF Len(p.argv) # 1
    THEN Outcome(cw, pp, Msg("The number of directions must equal one: {}", <<name>>),
                 "running")
    ELSE IF ~is_valid_address_str(p.params[1],
                                  <<g.max_address[1].col, g.max_address[1].row>>)
    THEN Outcome(cw, pp, Msg("The address param at index 0 is invalid: {}", <<name>>),
                 "running")
    ELSE IF Len(p.params) < 2
    THEN Outcome(cw, pp, Msg("Did not receive the length param: {}", <<name>>), "running")
    ELSE IF ~token_isdigit(p.params[2])
    THEN Outcome(cw, pp,
                 Msg("The length param at index 1 is invalid and must be an integer: {}",
                     <<name>>),
                 "running")
    ELSE LET r == return_cells_through_selection(
                      g, p.params[1], DirectionOf(p.argv[1]), ParseInt(p.params[2]))
         IN  IF r.raised.kind = "ValueError"
             THEN Outcome(cw, pp, r.raised.msg, "running")
             ELSE IF r.raised.kind # "none"
             THEN Outcome(cw, pp, print, r.raised.kind)
             ELSE Outcome(cw, <<r.cells>>,
                          Msg("{}", <<join([i \in 1..Len(r.cells) |->
                                              address_str_of(r.cells[i])])>>),
                          "running")

\* run, case Commands.Select with argc[0] = '2': the checks, then a loop over
\* argv without effect
run_Select_2(g, cw, pp, print, p) ==
    LET name == Commands[p.cmd].name IN
    IF Len(p.params) > 2
    THEN Outcome(cw, pp, Msg("Cannot have more than two params in '-2' mode: {}", <<name>>),
                 "running")
    ELSE IF Len(p.argv) # 2
    THEN Outcome(cw, pp, Msg("The number of directions must equal two: {}", <<name>>),
                 "running")
    ELSE Outcome(cw, pp, print, "running")

\* run, case Commands.Select
run_Select(g, cw, pp, print, p) ==
    IF Len(p.argc) > 1
    THEN Outcome(cw, pp,
                 Msg("Select command cannot wark with more than one argument. Only one can be provided",
                     <<>>),
                 "running")
    ELSE IF Len(p.argc) = 0 THEN Outcome(cw, pp, print, "running")
    ELSE IF p.argc[1] = "1" THEN run_Select_1(g, cw, pp, print, p)
    ELSE IF p.argc[1] = "2" THEN run_Select_2(g, cw, pp, print, p)
    ELSE Outcome(cw, pp, print, "running")

\* run, case Commands.Get
run_Get(g, cw, pp, print, p) ==
    IF pp = <<>>
    THEN Outcome(cw, pp, Msg("Must select at least one cell before using: {}",
                             <<Commands[p.cmd].name>>), "running")
    ELSE Outcome(cw, pp,
                 Msg("{}", <<join([i \in 1..Len(pp[1]) |-> Str(pp[1][i].value)])>>),
                 "running")

\* a deselect that reports the cells but keeps them selected
run_Deselect_keeps(g, cw, pp, print, p) ==
    IF pp = <<>>
    THEN Outcome(cw, pp, Msg("Nothing to deselect: {}", <<Commands[p.cmd].name>>), "running")
    ELSE Outcome(cw, pp,
                 Msg("Deselected {} cells: {}", <<Str(Len(pp[1])), Commands[p.cmd].name>>),
                 "running")

\* run, case Commands.Deselect
run_Deselect(g, cw, pp, print, p) ==
    IF pp = <<>>
    THEN Outcome(cw, pp, Msg("Nothing to deselect: {}", <<Commands[p.cmd].name>>), "running")
    ELSE Outcome(cw, <<>>,
                 Msg("Deselected {} cells: {}", <<Str(Len(pp[1])), Commands[p.cmd].name>>),
                 "running")

\* run, the match on cmd
run_match(g, cw, pp, print, p) ==
    CASE p.cmd = "Nil"      -> Outcome(cw, pp, Msg("Cannot have an empty command", <<>>),
                                       "running")
      [] p.cmd = "Exit"     -> Outcome(cw, pp, print, "exited")
      [] p.cmd = "Col"      -> run_Col(g, cw, pp, print, p)
      [] p.cmd = "Select"   -> run_Select(g, cw, pp, print, p)
      [] p.cmd = "Get"      -> run_Get(g, cw, pp, print, p)
      [] p.cmd = "Deselect" -> run_Deselect(g, cw, pp, print, p)

\* run, one iteration of the loop that reads the line args: a ValueError
\* becomes the feedback line, any other exception ends run
run_iteration(g, cw, pp, print, args) ==
    LET p == ask_input_command(args)
        a == check_allowed_args("Exit", p)
    IN  IF p.raised.kind = "ValueError" THEN Outcome(cw, pp, p.raised.msg, "running")
        ELSE IF p.raised.kind # "none" THEN Outcome(cw, pp, print, p.raised.kind)
        ELSE IF a.kind = "ValueError" THEN Outcome(cw, pp, a.msg, "running")
        ELSE IF selection_guard(pp, p.cmd) = "rejected"
        THEN Outcome(cw, pp,
                     Msg("Cannot use {} following select. Please use deselect to use {}",
                         <<Commands[p.cmd].name, Commands[p.cmd].name>>),
                     "running")
        ELSE run_match(g, cw, pp, print, p)

----------------------------------------------------------------------------
(* Console: rendering of a column by printf *)

char_width == 7

\* printf: the width a column is drawn at, its override or the default
width_of(cw, col) == IF col \in DOMAIN cw THEN cw[col] ELSE char_width

\* text[0:n]
slice_to(text, n) ==
    IF n >= 0 THEN SubSeq(text, 1, IF n < Len(text) THEN n ELSE Len(text))
    ELSE SubSeq(text, 1, IF Len(text) + n > 0 THEN Len(text) + n ELSE 0)

spaces(n) == [i \in 1..n |-> " "]

\* printf: the text of a cell of column col between two separators, padded
\* with spaces or cut to the column's width
value_text(cw, col, text) ==
    LET value_rest_space == width_of(cw, col) - Len(text)
    IN  IF value_rest_space < 0 THEN slice_to(text, width_of(cw, col))
        ELSE text \o spaces(value_rest_space)

\* printf: the text of the header of column col; the first column is never cut
header_text(cw, col) ==
    LET rest_space == width_of(cw, col) - Len(col)
    IN  IF col = <<"A">> THEN col \o spaces(rest_space)
        ELSE IF rest_space < 0 THEN slice_to(col, width_of(cw, col))
        ELSE col \o spaces(rest_space)

\* __make_rows: the number of dashes under column col
number_of_dashes(cw, col) == width_of(cw, col) + 2

----------------------------------------------------------------------------
(* Console operations: cells are added and columns resized, then run is    *)
(* called and reads one line per iteration                                  *)

\* the cell at column c, row r holds Integer(10 * c + r)
ConsoleCells ==
    {Cell(Address(ColLabel(c), r), 10 * c + r) : c \in 1..ColMax, r \in 1..RowMax}

\* the lists of at most n cells at distinct addresses
RECURSIVE CellSeqs(_)
CellSeqs(n) ==
    IF n = 0 THEN {<<>>}
    ELSE CellSeqs(n - 1)
         \cup {Append(l, c) : l \in {k \in CellSeqs(n - 1) : Len(k) = n - 1},
                              c \in ConsoleCells}

\* the grid after sheets.add(cell) for each cell of the list
RECURSIVE BuiltGrid(_)
BuiltGrid(cells) ==
    IF Len(cells) = 0 THEN [content |-> EmptyDict, max_address |-> <<>>, err |-> NoError]
    ELSE LET g == BuiltGrid(SubSeq(cells, 1, Len(cells) - 1))
         IN  add([content |-> g.content, max_address |-> g.max_address], cells[Len(cells)])

ConsoleGrids == {BuiltGrid(l) : l \in CellSeqs(MaxCells)}

Token(name) == Commands[name].name

WidthTokens == {Str(w) : w \in 1..MaxWidth}

ColTokens == {ColLabel(c) : c \in 1..ColMax} \cup {<<"a">>}

\* the first and the last address within the limits, one with row 0 and one
\* past the column limit
AnchorTokens ==
    {<<"A", "1">>, ColLabel(ColMax) \o Str(RowMax),
     <<"A", "0">>, ColLabel(ColMax + 1) \o <<"1">>}

DirectionFlags == Commands["Select"].argv

LengthTokens == {Str(n) : n \in 0..MaxLength}

\* the lines typed: args after .strip().split(' ')
ConsoleLines ==
    {<<<<>>>>, <<<<"f", "o", "o">>>>}
    \cup {<<Token(c)>> : c \in {"Exit", "Get", "Col", "Select", "Deselect"}}
    \cup {<<Token("Col"), c>> : c \in ColTokens}
    \cup {<<Token("Col"), c, w>> : c \in ColTokens, w \in WidthTokens \cup {<<"x">>}}
    \cup {<<Token("Col"), <<"A">>, <<"1">>, <<"1">>>>,
          <<Token("Col"), <<"-", "1">>, <<"A">>, <<"1">>>>,
          <<Token("Col"), <<>>, <<"A">>>>,
          <<Token("Get"), <<"-", "x">>>>, <<Token("Get"), <<"1">>>>, <<Token("Get"), <<"-">>>>,
          <<Token("Deselect"), <<"-", "-", "l">>>>, <<Token("Exit"), <<"-", "1">>>>}
    \cup {<<Token("Select"), <<"-", "1">>, d, a, n>> :
              d \in DirectionFlags, a \in AnchorTokens, n \in LengthTokens}
    \cup {<<Token("Select"), <<"-", "1">>, <<"A", "1">>, <<"1">>>>,
          <<Token("Select"), <<"-", "1">>, <<"-", "-", "r">>, <<"A", "1">>>>,
          <<Token("Select"), <<"-", "1">>, <<"-", "-", "r">>, <<"A", "1">>, <<"x">>>>,
          <<Token("Select"), <<"-", "1">>, <<"-", "-", "r">>, <<"A", "1">>, <<"1">>, <<"1">>>>,
          <<Token("Select"), <<"-", "1">>, <<"-", "2">>, <<"-", "-", "r">>, <<"A", "1">>, <<"1">>>>,
          <<Token("Select"), <<"-", "2">>, <<"-", "-", "r">>, <<"-", "-", "u">>, <<"A", "1">>, <<"1">>>>,
          <<Token("Select"), <<"-", "2">>, <<"-", "-", "r">>, <<"A", "1">>, <<"1">>>>,
          <<Token("Select"), <<"-", "3">>, <<"A", "1">>>>,
          <<Token("Select"), <<"-", "-", "z">>, <<"A", "1">>>>}

\* sheets = Spreadsheets(col_max = ColMax, row_max = RowMax) with some cells added
ConsoleInitFrom(grids) ==
    /\ \E g \in grids : content = g.content /\ max_address = g.max_address
    /\ err = NoError
    /\ ret = <<>>
    /\ op = "new"
    /\ written = EmptyDict
    /\ SelInit
    /\ LibIdle
    /\ cols_width = EmptyDict
    /\ prev_params = <<>>
    /\ prev_print = Msg("", <<>>)
    /\ run_state = "static"

ConsoleInit == ConsoleInitFrom(ConsoleGrids)

ConsoleFrame ==
    /\ UNCHANGED <<grid_vars, sel_vars>>
    /\ UNCHANGED <<result, instanced, nulls, null_err, heap>>

\* sheets.resize(name, new_value)
Resize(name, new_value) ==
    /\ run_state \in {"static", "dynamic"}
    /\ cols_width' = resize(cols_width, name, new_value)
    /\ call' = [fn |-> "resize", name |-> name, new_value |-> new_value]
    /\ UNCHANGED <<prev_params, prev_print, run_state>>
    /\ ConsoleFrame

\* sheets.enable_dynamic()
EnableDynamic ==
    /\ run_state = "static"
    /\ run_state' = "dynamic"
    /\ call' = [fn |-> "enable_dynamic"]
    /\ UNCHANGED <<cols_width, prev_params, prev_print>>
    /\ ConsoleFrame

\* sheets.run() is called: it raises at once unless the grid is dynamic
Run ==
    /\ run_state \in {"static", "dynamic"}
    /\ run_state' = IF run_state = "dynamic" THEN "running" ELSE "PermissionError"
    /\ call' = [fn |-> "run"]
    /\ UNCHANGED <<cols_width, prev_params, prev_print>>
    /\ ConsoleFrame

\* an iteration on an empty grid: printf raises ValueError before a line is read
IterateEmpty ==
    /\ run_state = "running"
    /\ corner_address_raises(Grid).kind = "ValueError"
    /\ prev_print' = corner_address_raises(Grid).msg
    /\ UNCHANGED <<cols_width, prev_params, run_state, call>>
    /\ ConsoleFrame

\* an iteration that prints the grid and the feedback line and reads args
Iterate(args) ==
    /\ run_state = "running"
    /\ corner_address_raises(Grid).kind = "none"
    /\ LET o == run_iteration(Grid, cols_width, prev_params, prev_print, args)
       IN  /\ cols_width' = o.cols_width
           /\ prev_params' = o.prev_params
           /\ prev_print' = o.prev_print
           /\ run_state' = o.run_state
    /\ UNCHANGED call
    /\ ConsoleFrame

\* input() meets the end of the input: run prints "Process finished" and returns
EndOfInput ==
    /\ run_state = "running"
    /\ corner_address_raises(Grid).kind = "none"
    /\ run_state' = "finished"
    /\ UNCHANGED <<cols_width, prev_params, prev_print, call>>
    /\ ConsoleFrame

ResizeStep == \E c \in 1..ColMax, w \in 1..MaxWidth : Resize(ColLabel(c), w)

IterateStep == \E args \in ConsoleLines : Iterate(args)

ConsoleNext ==
    ResizeStep \/ EnableDynamic \/ Run \/ IterateEmpty \/ IterateStep \/ EndOfInput

ConsoleSpec == ConsoleInit /\ [][ConsoleNext]_vars

\* the grid after a cell was added at every address of rows 1..rows
FilledGrid(rows) ==
    BuiltGrid([i \in 1..(ColMax * rows) |->
                  Cell(Address(ColLabel(((i - 1) % ColMax) + 1), ((i - 1) \div ColMax) + 1),
                       10 * (((i - 1) % ColMax) + 1) + ((i - 1) \div ColMax) + 1)])

FilledGrids == {FilledGrid(rows) : rows \in 1..RowMax}

\* a session in which only the column widths are changed
ColLines == {args \in ConsoleLines : args[1] = Token("Col")}

ColStep == \E args \in ColLines : Iterate(args)

WidthInit == ConsoleInitFrom({FilledGrid(RowMax)})

WidthNext == ResizeStep \/ EnableDynamic \/ Run \/ ColStep \/ EndOfInput

WidthSpec == WidthInit /\ [][WidthNext]_vars

\* a session of select, get and deselect lines
SelectionLines ==
    {args \in ConsoleLines :
        args[1] \in {<<>>, <<"f", "o", "o">>, Token("Select"), Token("Get"), Token("Deselect")}}

SelectionStep == \E args \in SelectionLines : Iterate(args)

SelectionInit == ConsoleInitFrom(FilledGrids)

SelectionNext == EnableDynamic \/ Run \/ SelectionStep \/ EndOfInput

SelectionSpec == SelectionInit /\ [][SelectionNext]_vars

----------------------------------------------------------------------------
(* Library calls: one call on arguments the caller picks *)

\* every variable but call and result is as after construction
LibFrame ==
    /\ UNCHANGED <<grid_vars, sel_vars, console_vars>>
    /\ UNCHANGED <<instanced, nulls, null_err, heap>>

LibInit(calls) ==
    /\ GridInit
    /\ SelInit
    /\ ConsoleOff
    /\ call \in calls
    /\ result = <<>>
    /\ instanced = FALSE
    /\ nulls = 1
    /\ null_err = NoError
    /\ heap = <<>>

\* label = Address.get_col_by_num(num); back = Address.get_col_num(label)
GetColByNum ==
    /\ call.fn = "get_col_by_num"
    /\ result = <<>>
    /\ LET label == get_col_by_num(call.num)
       IN  result' = <<[label |-> label, back |-> get_col_num(label)]>>
    /\ UNCHANGED call
    /\ LibFrame

CodecCalls == {[fn |-> "get_col_by_num", num |-> n] : n \in 1..MaxColNum}

CodecInit == LibInit(CodecCalls)

CodecNext == GetColByNum

CodecSpec == CodecInit /\ [][CodecNext]_vars

----------------------------------------------------------------------------
(* Custom commands: _CustomCommand.call *)

MaxParams == 2      \* most parameters a custom command declares and receives

\* float(param) succeeds: digits around at most one point (the parameters
\* handed in hold no sign, exponent, "inf" or "nan")
float_parses(param) ==
    /\ \E i \in 1..Len(param) : isdigit(param[i])
    /\ \A i \in 1..Len(param) : isdigit(param[i]) \/ param[i] = "."
    /\ Cardinality({i \in 1..Len(param) : param[i] = "."}) <= 1

\* call, lines 49-61: the value a parameter string is turned into
coerce(param) ==
    IF token_isdigit(param) THEN [type |-> "Integer", text |-> param]
    ELSE IF float_parses(param) THEN [type |-> "Float", text |-> param]
    ELSE IF param \in {<<"T", "R", "U", "E">>, <<"F", "A", "L", "S", "E">>}
    THEN [type |-> "Boolean", text |-> param]
    ELSE [type |-> "String", text |-> param]

\* _AddressParam.__eq__, reached as the reflected operand of param == AddressParam
AddressParam_eq(other) ==
    other.type = "String" /\ is_valid_address_str(other.text, <<>>)

AddressParam == [kind |-> "AddressParam", param_types |-> {}]

\* _ValueTypeParam with the classes it stands for
ValueTypeParam(types) == [kind |-> "ValueTypeParam", param_types |-> types]

StringParam == ValueTypeParam({"String"})

IntegerParam == ValueTypeParam({"Integer"})

FloatParam == ValueTypeParam({"Float"})

\* line 69, `if isinstance(param, param_type_singular):`, has no body. As
\* written the module fails to compile ("IndentationError"); completed with
\* an empty body the test has no effect ("absent"); completed the way line 66
\* reads it sets allow_access ("allow")
Line69Bodies == {"IndentationError", "absent", "allow"}

\* what a call leaves behind: the exception, whether the handler was invoked
\* and with which arguments
CallOutcome(raised, invoked, handler_args) ==
    [raised |-> raised, invoked |-> invoked, handler_args |-> handler_args]

\* _CustomCommand.call: the return statement stands inside the loop over
\* params, so the loop ends in its first iteration
custom_call(cmd, body, argc, argv, params) ==
    IF body = "IndentationError"
    THEN CallOutcome(Raise("IndentationError",
                           Msg("expected an indented block after 'if' statement", <<>>)),
                     FALSE, <<>>)
    ELSE IF argc \ cmd.argc # {}
    THEN CallOutcome(Raise("ValueError", Msg("Unknown value of 'argc': {}", <<>>)),
                     FALSE, <<>>)
    ELSE IF argv \ cmd.argv # {}
    THEN CallOutcome(Raise("ValueError", Msg("Unknown value of 'argv': {}", <<>>)),
                     FALSE, <<>>)
    ELSE IF Len(params) = 0 THEN CallOutcome(NoRaise, FALSE, <<>>)
    ELSE IF Len(cmd.param_types) = 0
    THEN CallOutcome(Raise("IndexError", Msg("list index out of range", <<>>)), FALSE, <<>>)
    ELSE LET param_type == cmd.param_types[1]
             param == coerce(params[1])
             allow_access ==
                 \/ AddressParam_eq(param)
                 \/ /\ param_type.kind = "ValueTypeParam"
                    /\ body = "allow"
                    /\ \E param_type_singular \in param_type.param_types :
                          param.type = param_type_singular
         IN  IF ~allow_access
             THEN CallOutcome(
                      Raise("ValueError",
                            Msg("The value of {} is not associated with type it was given in param_types ({})",
                                <<params[1]>>)),
                      FALSE, <<>>)
             ELSE CallOutcome(NoRaise, TRUE, <<>>)

\* command.call(sp, argc, argv, params) on a registered command
CustomCall ==
    /\ call.fn = "custom_call"
    /\ result = <<>>
    /\ result' = <<custom_call(call.cmd, call.body, call.argc, call.argv, call.params)>>
    /\ UNCHANGED call
    /\ LibFrame

DeclaredTypes ==
    {AddressParam, StringParam, IntegerParam, FloatParam, ValueTypeParam({"Integer", "Float"})}

ParamTokens ==
    {<<"A", "1">>, <<"5">>, <<"1", ".", "5">>, <<"h", "e", "l", "l", "o">>,
     <<"T", "R", "U", "E">>}

\* the sequences of 1..MaxParams elements of S
SeqsOf(S, n) == UNION {[1..k -> S] : k \in 1..n}

CommandCalls ==
    {[fn |-> "custom_call",
      cmd |-> [argc |-> {"a"}, argv |-> {"x"}, param_types |-> types],
      body |-> body, argc |-> argc, argv |-> argv, params |-> params] :
        types \in SeqsOf(DeclaredTypes, MaxParams),
        body \in Line69Bodies,
        argc \in {{}, {"b"}},
        argv \in {{}, {"y"}},
        params \in SeqsOf(ParamTokens, MaxParams)}

CommandInit == LibInit(CommandCalls)

CommandNext == CustomCall

CommandSpec == CommandInit /\ [][CommandNext]_vars

----------------------------------------------------------------------------
(* The Null singleton: libs/__init__.py *)

MaxNulls == 120     \* most _NullType instances followed

\* _NullType.__new__: raises when the class attribute __instanced is set,
\* and otherwise returns a new instance; nothing in the class or the module
\* assigns __instanced
NullType_new(flag, count) ==
    IF flag THEN [err |-> "PermissionError", instanced |-> flag, nulls |-> count]
    ELSE [err |-> NoError, instanced |-> flag, nulls |-> count + 1]

\* after import, Null = _NullType() is the first instance; the caller
\* constructs _NullType() again
ConstructNull ==
    /\ nulls < MaxNulls
    /\ LET r == NullType_new(instanced, nulls)
       IN  /\ null_err' = r.err
           /\ instanced' = r.instanced
           /\ nulls' = r.nulls
    /\ UNCHANGED <<grid_vars, sel_vars, console_vars, call, result, heap>>

NullNext == ConstructNull

NullSpec == Init /\ [][NullNext]_vars

----------------------------------------------------------------------------
(* Dates: libs/time.py, Date.__new__ and DateTime.__new__ *)

MaxDay == 32        \* largest day handed to the date constructors
MaxMonth == 13      \* largest month handed to the date constructors

\* Date.is_leap_year
is_leap_year(year) == (year % 4 = 0 /\ year % 100 # 0) \/ (year % 400 = 0)

\* Date.__new__: the exception it raises, or "none"; the February test for
\* day 28 follows the leap-year test unconditionally
Date_new(d, m, y) ==
    IF ~(1 <= d /\ d <= 31) THEN "ValueError"
    ELSE IF ~(1 <= m /\ m <= 12) THEN "ValueError"
    ELSE IF m = 2 /\ is_leap_year(y) /\ d > 29 THEN "ValueError"
    ELSE IF m = 2 /\ d > 28 THEN "ValueError"
    ELSE IF m \in {4, 6, 9, 11} /\ d > 30 THEN "ValueError"
    ELSE NoError

\* DateTime.__new__: the same tests on the date, then those on the time
DateTime_new(d, m, y, h, mn, s) ==
    IF ~(1 <= d /\ d <= 31) THEN "ValueError"
    ELSE IF ~(1 <= m /\ m <= 12) THEN "ValueError"
    ELSE IF m = 2 /\ is_leap_year(y) /\ d > 29 THEN "ValueError"
    ELSE IF m = 2 /\ d > 28 THEN "ValueError"
    ELSE IF m \in {4, 6, 9, 11} /\ d > 30 THEN "ValueError"
    ELSE IF ~(0 <= h /\ h <= 23) THEN "ValueError"
    ELSE IF ~(0 <= mn /\ mn <= 59) THEN "ValueError"
    ELSE IF ~(0 <= s /\ s <= 59) THEN "ValueError"
    ELSE NoError

\* Date(d, m, y)
DateNew ==
    /\ call.fn = "Date"
    /\ result = <<>>
    /\ result' = <<[err |-> Date_new(call.d, call.m, call.y)]>>
    /\ UNCHANGED call
    /\ LibFrame

\* DateTime(d, m, y, 0, 0, 0)
DateTimeNew ==
    /\ call.fn = "DateTime"
    /\ result = <<>>
    /\ result' = <<[err |-> DateTime_new(call.d, call.m, call.y, 0, 0, 0)]>>
    /\ UNCHANGED call
    /\ LibFrame

\* years of every kind: plain, leap, century, fourth century
TriedYears == {2023, 2024, 1900, 2100, 2000}

DateCalls ==
    {[fn |-> f, d |-> d, m |-> m, y |-> y] :
        f \in {"Date", "DateTime"}, d \in 0..MaxDay, m \in 0..MaxMonth, y \in TriedYears}

DateInit == LibInit(DateCalls)

DateNext == DateNew \/ DateTimeNew

DateSpec == DateInit /\ [][DateNext]_vars

----------------------------------------------------------------------------
(* Time: libs/time.py, class Time *)

MaxHour == 24       \* largest hour handed to Time

DfTime == {"H24", "H12", "FSTR", "STR"}

\* str(n) if n > 9 else '0' + str(n)
two_digits(n) == IF n > 9 THEN Str(n) ELSE <<"0">> \o Str(n)

\* Time.__new__: the exception it raises, or "none"
Time_new(h, m) ==
    IF ~(0 <= h /\ h <= 23) THEN "ValueError"
    ELSE IF ~(0 <= m /\ m <= 59) THEN "ValueError"
    ELSE NoError

\* Time.__init__: the fields of the instance
Time_init(h, m, display_format) ==
    [h |-> h, m |-> m, display_format |-> display_format,
     strdata |-> <<two_digits(h), two_digits(m)>>]

SUFFIX_AM == <<" ", "a", "m">>

SUFFIX_PM == <<" ", "p", "m">>

\* the words of the FSTR and STR renderings; the FSTR literal runs over a
\* line break, whose indentation is part of the text
HOUR_WORD == <<" ", "h", "o", "u", "r">>

AND_WORD == <<" ", " ", " ", " ", " ", " ", " ", " ", " ", " ", " ", " ", " ", " ", " ", " ", " ", " ", " ", " ", " ", " ", " ", " ", " ", " ", "a", "n", "d", " ">>

MINUTE_WORD == <<" ", "m", "i", "n", "u", "t", "e">>

H_WORD == <<" ", "h", " ">>

M_WORD == <<" ", "m">>

\* '0' + s[-1] when 0 < int(s) < 9, else s
pad_below_nine(s) ==
    IF 0 < ParseInt(s) /\ ParseInt(s) < 9 THEN <<"0", s[Len(s)]>> ELSE s

\* Time.__str__: the text returned and the instance afterwards; the 12-hour
\* branch assigns to __strdata
Time_str(self) ==
    CASE self.display_format = "H24" ->
           [text |-> self.strdata[1] \o <<COLON>> \o self.strdata[2], self |-> self]
      [] self.display_format = "H12" ->
           LET suffix == IF self.h \in 0..11 THEN SUFFIX_AM ELSE SUFFIX_PM
               s0a == IF self.h = 0 THEN Str(12) ELSE self.strdata[1]
               s0b == IF 13 < self.h /\ self.h < 24 THEN Str(self.h - 12) ELSE s0a
               s0 == pad_below_nine(s0b)
               s1 == pad_below_nine(self.strdata[2])
           IN  [text |-> s0 \o <<COLON>> \o s1 \o suffix,
                self |-> [self EXCEPT !.strdata = <<s0, s1>>]]
      [] self.display_format = "FSTR" ->
           [text |-> Str(self.h) \o HOUR_WORD \o (IF self.h # 1 THEN <<"s">> ELSE <<>>)
                     \o AND_WORD \o Str(self.m) \o MINUTE_WORD
                     \o (IF self.m # 1 THEN <<"s">> ELSE <<>>),
            self |-> self]
      [] self.display_format = "STR" ->
           [text |-> Str(self.h) \o H_WORD \o Str(self.m) \o M_WORD, self |-> self]

\* Time.change_display_format
Time_change_display_format(self, to) ==
    IF self.display_format = to THEN self ELSE [self EXCEPT !.display_format = to]

\* t = Time(h, m, display_format)
TimeNew ==
    /\ call.fn = "Time"
    /\ result = <<>>
    /\ heap = <<>>
    /\ LET e == Time_new(call.h, call.m)
       IN  /\ result' = <<[fn |-> "Time", err |-> e]>>
           /\ heap' = IF e = NoError
                      THEN [time |-> Time_init(call.h, call.m, call.display_format)]
                      ELSE heap
    /\ UNCHANGED <<call, instanced, nulls, null_err>>
    /\ UNCHANGED <<grid_vars, sel_vars, console_vars>>

\* str(t)
TimeStr ==
    /\ call.fn = "Time"
    /\ heap # <<>>
    /\ LET r == Time_str(heap.time)
       IN  /\ result' = <<[fn |-> "str", format |-> heap.time.display_format,
                           text |-> r.text]>>
           /\ heap' = [time |-> r.self]
    /\ UNCHANGED <<call, instanced, nulls, null_err>>
    /\ UNCHANGED <<grid_vars, sel_vars, console_vars>>

\* t.change_display_format(to)
TimeChangeDisplayFormat(to) ==
    /\ call.fn = "Time"
    /\ heap # <<>>
    /\ result' = <<[fn |-> "change_display_format", to |-> to]>>
    /\ heap' = [time |-> Time_change_display_format(heap.time, to)]
    /\ UNCHANGED <<call, instanced, nulls, null_err>>
    /\ UNCHANGED <<grid_vars, sel_vars, console_vars>>

TimeChangeStep == \E to \in DfTime : TimeChangeDisplayFormat(to)

TriedMinutes == {0, 5, 9, 10, 30, 59, 60}

TimeCalls ==
    {[fn |-> "Time", h |-> h, m |-> m, display_format |-> f] :
        h \in 0..MaxHour, m \in TriedMinutes, f \in {"H24", "H12"}}

TimeInit == LibInit(TimeCalls)

TimeNext == TimeNew \/ TimeStr \/ TimeChangeStep

TimeSpec == TimeInit /\ [][TimeNext]_vars

----------------------------------------------------------------------------
(* Multiple: libs/multiple.py *)

MaxCandidate == 2   \* candidates are Integer(1) .. Integer(MaxCandidate)
MaxListLen == 3     \* longest list of candidates followed
MaxIndex == 3       \* indices handed in run from -MaxIndex to MaxIndex

\* the position (from 1) that list[index] names in a list of n elements, or
\* 0 for an IndexError: a negative index counts from the end
list_position(n, index) ==
    IF 0 <= index /\ index < n THEN index + 1
    ELSE IF index < 0 /\ index + n >= 0 THEN index + n + 1
    ELSE 0

\* list.pop(index) on a position that exists
list_pop(values, pos) == SubSeq(values, 1, pos - 1) \o SubSeq(values, pos + 1, Len(values))

\* list.insert(index, item): the index is counted from the end when
\* negative and clamped to the list
list_insert(values, index, item) ==
    LET n == Len(values)
        i == IF index < 0 THEN (IF index + n < 0 THEN 0 ELSE index + n)
             ELSE IF index > n THEN n ELSE index
    IN  SubSeq(values, 1, i) \o <<item>> \o SubSeq(values, i + 1, n)

\* Multiple.__init__
Multiple_init(values) == [values |-> values, current_value |-> <<>>]

\* Multiple.choose: the instance afterwards and the exception raised
Multiple_choose(self, index) ==
    LET pos == list_position(Len(self.values), index)
    IN  IF pos = 0 THEN [self |-> self, err |-> "ValueError"]
        ELSE [self |-> [self EXCEPT !.current_value = <<self.values[pos]>>],
              err |-> NoError]

\* Multiple.expand
Multiple_expand(self, new_values) ==
    [self |-> [self EXCEPT !.values = self.values \o new_values], err |-> NoError]

\* Multiple.remove
Multiple_remove(self, index) ==
    LET pos == list_position(Len(self.values), index)
    IN  IF pos = 0 THEN [self |-> self, err |-> "IndexError"]
        ELSE [self |-> [self EXCEPT !.values = list_pop(self.values, pos)],
              err |-> NoError]

\* Multiple.reposition
Multiple_reposition(self, item_index, new_index) ==
    LET pos == list_position(Len(self.values), item_index)
    IN  IF pos = 0 THEN [self |-> self, err |-> "IndexError"]
        ELSE [self |-> [self EXCEPT !.values =
                            list_insert(list_pop(self.values, pos), new_index,
                                        self.values[pos])],
              err |-> NoError]

NONE_TEXT == <<"N", "o", "n", "e">>

\* Multiple.__str__: str(None) while nothing is chosen
Multiple_str(self) ==
    IF self.current_value = <<>> THEN NONE_TEXT ELSE Str(self.current_value[1])

MultipleFrame ==
    /\ UNCHANGED <<call, instanced, nulls, null_err>>
    /\ UNCHANGED <<grid_vars, sel_vars, console_vars>>

\* multiple = Multiple(Integer, values)
MultipleNew ==
    /\ call.fn = "Multiple"
    /\ heap = <<>>
    /\ heap' = [multiple |-> Multiple_init(call.values)]
    /\ result' = <<[fn |-> "Multiple", err |-> NoError]>>
    /\ MultipleFrame

\* the instance and the result after a method returned r
MultipleAfter(fn, r) ==
    /\ heap' = [multiple |-> r.self]
    /\ result' = <<[fn |-> fn, err |-> r.err]>>
    /\ MultipleFrame

\* multiple.choose(index)
Choose(index) ==
    /\ call.fn = "Multiple"
    /\ heap # <<>>
    /\ MultipleAfter("choose", Multiple_choose(heap.multiple, index))

\* multiple.expand(value)
Expand(value) ==
    /\ call.fn = "Multiple"
    /\ heap # <<>>
    /\ Len(heap.multiple.values) < MaxListLen
    /\ MultipleAfter("expand", Multiple_expand(heap.multiple, <<value>>))

\* multiple.remove(index)
Remove(index) ==
    /\ call.fn = "Multiple"
    /\ heap # <<>>
    /\ MultipleAfter("remove", Multiple_remove(heap.multiple, index))

\* multiple.reposition(item_index, new_index)
Reposition(item_index, new_index) ==
    /\ call.fn = "Multiple"
    /\ heap # <<>>
    /\ MultipleAfter("reposition", Multiple_reposition(heap.multiple, item_index, new_index))

Candidates == 1..MaxCandidate

Indices == (0 - MaxIndex)..MaxIndex

ChooseStep == \E index \in Indices : Choose(index)

ExpandStep == \E value \in Candidates : Expand(value)

RemoveStep == \E index \in Indices : Remove(index)

RepositionStep == \E item_index \in Indices, new_index \in Indices : Reposition(item_index, new_index)

MultipleCalls ==
    {[fn |-> "Multiple", values |-> values] :
        values \in UNION {[1..k -> Candidates] : k \in 0..2}}

MultipleInit == LibInit(MultipleCalls)

MultipleNext == MultipleNew \/ ChooseStep \/ ExpandStep \/ RemoveStep \/ RepositionStep

MultipleSpec == MultipleInit /\ [][MultipleNext]_vars

----------------------------------------------------------------------------
(* Date display formats: libs/time.py, class Date *)

\* Date.__months
months ==
    <<<<"J", "a", "n", "u", "a", "r", "y">>,
      <<"F", "e", "b", "r", "u", "a", "r", "y">>,
      <<"M", "a", "r", "c", "h">>,
      <<"A", "p", "r", "i", "l">>,
      <<"M", "a", "y">>,
      <<"J", "u", "n", "e">>,
      <<"J", "u", "l", "y">>,
      <<"A", "u", "g", "u", "s", "t">>,
      <<"S", "e", "p", "t", "e", "m", "b", "e", "r">>,
      <<"O", "c", "t", "o", "b", "e", "r">>,
      <<"N", "o", "v", "e", "m", "b", "e", "r">>,
      <<"D", "e", "c", "e", "m", "b", "e", "r">>>>

DfDateMonth == {"INT", "STR", "FSTR"}

DfDateYear == {"CHAR2", "CHAR4"}

current_century == 20

\* Date.__init__
Date_init(d, m, y) ==
    [d |-> d, m |-> m, y |-> y,
     strdata |-> <<two_digits(d), two_digits(m), Str(y)>>,
     month_display_format |-> "INT", year_display_format |-> "CHAR4"]

\* Date.change_month_display_format: the instance afterwards and the
\* exception raised
Date_change_month_display_format(self, to, auto_force) ==
    IF to # "INT" /\ self.year_display_format = "CHAR2" /\ ~auto_force
    THEN [self |-> self, err |-> "ValueError"]
    ELSE LET forced == IF to # "INT" /\ self.year_display_format = "CHAR2"
                       THEN [self EXCEPT !.year_display_format = "CHAR4",
                                         !.strdata[3] = Str(self.y)]
                       ELSE self
         IN  IF forced.month_display_format = to THEN [self |-> forced, err |-> NoError]
             ELSE [self |-> [forced EXCEPT
                       !.month_display_format = to,
                       !.strdata[2] =
                           CASE to = "FSTR" -> months[self.m]
                             [] to = "STR"  -> SubSeq(months[self.m], 1, 3)
                             [] to = "INT"  -> two_digits(self.m)],
                   err |-> NoError]

\* Date.change_year_display_format: with auto_force the month format is set
\* to INT and the month text is left as it is
Date_change_year_display_format(self, to, auto_force) ==
    IF to = "CHAR2" /\ ~(current_century * 100 < self.y
                         /\ self.y < (current_century + 1) * 100)
    THEN [self |-> self, err |-> "ValueError"]
    ELSE IF to = "CHAR2" /\ self.month_display_format # "INT" /\ ~auto_force
    THEN [self |-> self, err |-> "ValueError"]
    ELSE LET forced == IF to = "CHAR2" /\ self.month_display_format # "INT"
                       THEN [self EXCEPT !.month_display_format = "INT"]
                       ELSE self
         IN  IF forced.year_display_format = to THEN [self |-> forced, err |-> NoError]
             ELSE [self |-> [forced EXCEPT
                       !.year_display_format = to,
                       !.strdata[3] =
                           IF to = "CHAR2" THEN SubSeq(Str(self.y), 3, Len(Str(self.y)))
                           ELSE Str(self.y)],
                   err |-> NoError]

SLASH == "/"

\* Date.__str__
Date_str(self) ==
    LET separator == IF self.month_display_format = "INT" THEN <<SLASH>> ELSE <<" ">>
    IN  self.strdata[1] \o separator \o self.strdata[2] \o separator \o self.strdata[3]

DateFrame ==
    /\ UNCHANGED <<call, instanced, nulls, null_err>>
    /\ UNCHANGED <<grid_vars, sel_vars, console_vars>>

\* date = Date(d, m, y)
DateConstruct ==
    /\ call.fn = "DateFormats"
    /\ heap = <<>>
    /\ heap' = [date |-> Date_init(call.d, call.m, call.y)]
    /\ result' = <<[fn |-> "Date", err |-> Date_new(call.d, call.m, call.y)]>>
    /\ DateFrame

\* date.change_month_display_format(to, auto_force = auto_force)
ChangeMonthDisplayFormat(to, auto_force) ==
    /\ call.fn = "DateFormats"
    /\ heap # <<>>
    /\ LET r == Date_change_month_display_format(heap.date, to, auto_force)
       IN  /\ heap' = [date |-> r.self]
           /\ result' = <<[fn |-> "change_month_display_format", err |-> r.err]>>
    /\ DateFrame

\* date.change_year_display_format(to, auto_force = auto_force)
ChangeYearDisplayFormat(to, auto_force) ==
    /\ call.fn = "DateFormats"
    /\ heap # <<>>
    /\ LET r == Date_change_year_display_format(heap.date, to, auto_force)
       IN  /\ heap' = [date |-> r.self]
           /\ result' = <<[fn |-> "change_year_display_format", err |-> r.err]>>
    /\ DateFrame

ChangeMonthStep ==
    \E to \in DfDateMonth, auto_force \in BOOLEAN : ChangeMonthDisplayFormat(to, auto_force)

ChangeYearStep ==
    \E to \in DfDateYear, auto_force \in BOOLEAN : ChangeYearDisplayFormat(to, auto_force)

\* dates that construct, in the current century and before it
DateFormatCalls ==
    {[fn |-> "DateFormats", d |-> d, m |-> m, y |-> y] :
        d \in {1, 24}, m \in 1..12, y \in {1999, 2024}}

DateFormatInit == LibInit(DateFormatCalls)

DateFormatNext == DateConstruct \/ ChangeMonthStep \/ ChangeYearStep

DateFormatSpec == DateFormatInit /\ [][DateFormatNext]_vars

----------------------------------------------------------------------------
(* Param types: the module's three value-type objects and their unions *)

\* _ValueTypeParam.__init__: the list holding the one class
ValueTypeParam_init(param_type) == <<param_type>>

\* the module's objects as the import leaves them
ParamTypeObjects ==
    [StringParam  |-> ValueTypeParam_init("String"),
     IntegerParam |-> ValueTypeParam_init("Integer"),
     FloatParam   |-> ValueTypeParam_init("Float")]

ParamTypeNames == DOMAIN ParamTypeObjects

\* _ValueTypeParam.__or__ on the two lists: the error and self's list after
\* the call; the object returned is self
ValueTypeParam_or(self, other) ==
    IF \E i \in 1..Len(other) : other[i] \in Range(self)
    THEN [err |-> "ValueError", param_types |-> self]
    ELSE [err |-> NoError, param_types |-> self \o other]

\* _ValueTypeParam.__ror__ with AddressParam on the left: the first test
\* reads other.param_types, which _AddressParam does not have
ValueTypeParam_ror(self) ==
    IF self # <<>>
    THEN [err |-> "AttributeError", param_types |-> self]
    ELSE [err |-> NoError, param_types |-> self]

\* command.py 68-69: the classes a value is tested against
accepts(param_types, type) == type \in Range(param_types)

ParamTypeFrame ==
    /\ UNCHANGED <<call, instanced, nulls, null_err>>
    /\ UNCHANGED <<grid_vars, sel_vars, console_vars>>

\* from spreadsheets.dynamic.paramtypes import *
ParamTypesImport ==
    /\ call.fn = "ParamTypes"
    /\ heap = <<>>
    /\ heap' = ParamTypeObjects
    /\ result' = <<[fn |-> "import", left |-> "", right |-> "", err |-> NoError]>>
    /\ ParamTypeFrame

\* left | right on two of the module's objects
Or(left, right) ==
    /\ call.fn = "ParamTypes"
    /\ heap # <<>>
    /\ LET r == ValueTypeParam_or(heap[left], heap[right])
       IN  /\ heap' = [heap EXCEPT ![left] = r.param_types]
           /\ result' = <<[fn |-> "or", left |-> left, right |-> right,
                           err |-> r.err]>>
    /\ ParamTypeFrame

\* AddressParam | right
Ror(right) ==
    /\ call.fn = "ParamTypes"
    /\ heap # <<>>
    /\ LET r == ValueTypeParam_ror(heap[right])
       IN  /\ heap' = [heap EXCEPT ![right] = r.param_types]
           /\ result' = <<[fn |-> "or", left |-> "AddressParam", right |-> right,
                           err |-> r.err]>>
    /\ ParamTypeFrame

OrStep == \E left \in ParamTypeNames, right \in ParamTypeNames : Or(left, right)

RorStep == \E right \in ParamTypeNames : Ror(right)

ParamTypeCalls == {[fn |-> "ParamTypes"]}

ParamTypeInit == LibInit(ParamTypeCalls)

ParamTypeNext == ParamTypesImport \/ OrStep \/ RorStep

ParamTypeSpec == ParamTypeInit /\ [][ParamTypeNext]_vars

----------------------------------------------------------------------------
(* DateTime: libs/time.py, class DateTime, display and region formats *)

DfDateTime == {"FSTR", "STR", "INT", "FULL_STR"}

RegDateTime == {"DEFAULT", "US"}

\* DateTime.__unit_words as the class body leaves it: the word and the
\* attribute of every unit
unit_words ==
    <<[word |-> <<"d", "a", "y">>, attr |-> "d"],
      [word |-> <<"m", "o", "n", "t", "h">>, attr |-> "m"],
      [word |-> <<"y", "e", "a", "r">>, attr |-> "y"],
      [word |-> <<"h", "o", "u", "r">>, attr |-> "h"],
      [word |-> <<"m", "i", "n", "u", "t", "e">>, attr |-> "mn"],
      [word |-> <<"s", "e", "c", "o", "n", "d">>, attr |-> "s"],
      [word |-> <<"m", "i", "l", "l", "i", "s", "e", "c", "o", "n", "d">>,
       attr |-> "ms"]>>

\* DateTime.__init__ without milliseconds, in the default formats
DateTime_init(d, m, y, h, mn, s) ==
    [d |-> d, m |-> m, y |-> y, h |-> h, mn |-> mn, s |-> s,
     strdata |-> <<two_digits(d), two_digits(m), Str(y),
                   two_digits(h), two_digits(mn), two_digits(s)>>,
     display_format |-> "INT",
     region_format |-> "DEFAULT"]

\* separator.join(strs)
RECURSIVE join_with(_, _)
join_with(separator, strs) ==
    IF Len(strs) = 0 THEN <<>>
    ELSE IF Len(strs) = 1 THEN strs[1]
    ELSE strs[1] \o separator \o join_with(separator, Tail(strs))

\* DateTime.__str__
DateTime_str(self) ==
    LET date_separator == IF self.display_format = "INT" THEN <<SLASH>> ELSE <<" ">>
        time_separator == IF self.display_format = "INT" THEN <<COLON>> ELSE <<" ">>
    IN  join_with(date_separator, SubSeq(self.strdata, 1, 3))
        \o <<" ">>
        \o join_with(time_separator, SubSeq(self.strdata, 4, Len(self.strdata)))

\* the text the FULL_STR branch builds from one fragment
full_str_text(strdata, word) ==
    Str(ParseInt(strdata)) \o <<" ">> \o word
    \o (IF ParseInt(strdata) > 0 THEN <<"s">> ELSE <<>>)

\* DateTime.change_display_format(to), reading the class's list words: the
\* instance and the error after the call. The list index of the month is
\* month_index + 1 here, sequences starting at 1. The FULL_STR loop stops at
\* the first fragment int() rejects, the earlier ones already rewritten.
DateTime_change_display_format(self, to, words) ==
    IF to = self.display_format THEN [self |-> self, err |-> NoError]
    ELSE
    LET month_index == IF self.region_format = "DEFAULT" THEN 1 ELSE 0
        indexes == 1..Len(self.strdata)
        from_attrs == [index \in indexes |-> two_digits(self[words[index].attr])]
        rejected == {index \in indexes : ~token_isdigit(self.strdata[index])}
        stop == IF rejected = {} THEN Len(self.strdata) + 1
                ELSE CHOOSE index \in rejected : \A o \in rejected : index <= o
    IN  CASE to = "FSTR" ->
               [self |-> [self EXCEPT
                             !.display_format = to,
                             !.strdata = [from_attrs EXCEPT
                                             ![month_index + 1] = months[self.m]]],
                err |-> NoError]
          [] to = "STR" ->
               [self |-> [self EXCEPT
                             !.display_format = to,
                             !.strdata = [from_attrs EXCEPT
                                             ![month_index + 1] =
                                                 SubSeq(months[self.m], 1, 3)]],
                err |-> NoError]
          [] to = "INT" ->
               [self |-> [self EXCEPT !.display_format = to,
                                      !.strdata = from_attrs],
                err |-> NoError]
          [] to = "FULL_STR" ->
               [self |-> [self EXCEPT
                             !.display_format = to,
                             !.strdata =
                                 [index \in indexes |->
                                     IF index < stop
                                     THEN full_str_text(self.strdata[index],
                                                        words[index].word)
                                     ELSE self.strdata[index]]],
                err |-> IF rejected = {} THEN NoError ELSE "ValueError"]

\* a[0], a[1] = a[1], a[0]
swap_first_two(a) == [a EXCEPT ![1] = a[2], ![2] = a[1]]

\* DateTime.change_region_format(to): the instance and the class's list
\* after the call
DateTime_change_region_format(self, to, words) ==
    IF to = self.region_format THEN [self |-> self, unit_words |-> words]
    ELSE [self |-> [self EXCEPT !.region_format = to,
                                !.strdata = swap_first_two(self.strdata)],
          unit_words |-> swap_first_two(words)]

DateTimeFrame ==
    /\ UNCHANGED <<call, instanced, nulls, null_err>>
    /\ UNCHANGED <<grid_vars, sel_vars, console_vars>>

InstanceNames == {"first", "second"}

\* first = DateTime(...); second = DateTime(...)
DateTimesConstruct ==
    /\ call.fn = "DateTimes"
    /\ heap = <<>>
    /\ LET a == call.first
           b == call.second
       IN  /\ DateTime_new(a.d, a.m, a.y, a.h, a.mn, a.s) = NoError
           /\ DateTime_new(b.d, b.m, b.y, b.h, b.mn, b.s) = NoError
           /\ heap' = [unit_words |-> unit_words,
                       first |-> DateTime_init(a.d, a.m, a.y, a.h, a.mn, a.s),
                       second |-> DateTime_init(b.d, b.m, b.y, b.h, b.mn, b.s)]
    /\ result' = <<[fn |-> "DateTime", on |-> "", to |-> "", err |-> NoError,
                    text |-> <<>>]>>
    /\ DateTimeFrame

\* name.change_display_format(to); str(name)
ChangeDisplayFormat(name, to) ==
    /\ call.fn = "DateTimes"
    /\ heap # <<>>
    /\ LET r == DateTime_change_display_format(heap[name], to, heap.unit_words)
       IN  /\ heap' = [heap EXCEPT ![name] = r.self]
           /\ result' = <<[fn |-> "change_display_format", on |-> name, to |-> to,
                           err |-> r.err, text |-> DateTime_str(r.self)]>>
    /\ DateTimeFrame

\* name.change_region_format(to)
ChangeRegionFormat(name, to) ==
    /\ call.fn = "DateTimes"
    /\ heap # <<>>
    /\ LET r == DateTime_change_region_format(heap[name], to, heap.unit_words)
       IN  /\ heap' = [heap EXCEPT ![name] = r.self, !.unit_words = r.unit_words]
           /\ result' = <<[fn |-> "change_region_format", on |-> name, to |-> to,
                           err |-> NoError, text |-> <<>>]>>
    /\ DateTimeFrame

ChangeDisplayStep ==
    \E name \in InstanceNames, to \in DfDateTime : ChangeDisplayFormat(name, to)

ChangeRegionStep ==
    \E name \in InstanceNames, to \in RegDateTime : ChangeRegionFormat(name, to)

\* a day above 12 with a one-digit month, and a day below the month
TriedDateTimes ==
    {[d |-> 24, m |-> 7, y |-> 2024, h |-> 13, mn |-> 5, s |-> 0],
     [d |-> 1, m |-> 12, y |-> 1999, h |-> 0, mn |-> 30, s |-> 59]}

DateTimeCalls ==
    {[fn |-> "DateTimes", first |-> a, second |-> b] :
        a \in TriedDateTimes, b \in TriedDateTimes}

DateTimeInit == LibInit(DateTimeCalls)

DateTimeNext == DateTimesConstruct \/ ChangeDisplayStep \/ ChangeRegionStep

DateTimeSpec == DateTimeInit /\ [][DateTimeNext]_vars

----------------------------------------------------------------------------
(* printf: the column enumeration, one loop iteration at a time *)

MaxSteps == 4       \* most iterations of the enumeration loop that are followed

\* the labels a caller of Address(col, row, limits) tries: those of TriedCols
\* and the empty string
PrintCols == TriedCols \cup {<<>>}

\* Address.iterate_cols_until(stop_col) for a str stop_col, on entry
iterate_cols_until(stop_col) ==
    [stop_col |-> stop_col, cols_list |-> <<>>, col_num |-> 0]

\* one pass through the body of `while True`: the locals after it and whether
\* the break was taken
iterate_cols_until_body(loop) ==
    LET col_num == loop.col_num + 1
        col == get_col_by_num(col_num)
    IN  [loop |-> [loop EXCEPT !.col_num = col_num,
                               !.cols_list = Append(loop.cols_list, col)],
         break |-> col = loop.stop_col]

PrintFrame ==
    /\ UNCHANGED <<call, instanced, nulls, null_err>>
    /\ UNCHANGED <<grid_vars, sel_vars, console_vars>>

\* sheets.printf() up to the call of iterate_cols_until: __corner_address
\* raises on a grid without cells, else the loop is entered
PrintfCall ==
    /\ call.fn = "printf"
    /\ heap = <<>>
    /\ IF corner_address_raises(Grid).kind = "ValueError"
       THEN /\ result' = <<[fn |-> "printf", err |-> "ValueError", cols |-> <<>>]>>
            /\ heap' = heap
       ELSE /\ result' = <<>>
            /\ heap' = iterate_cols_until(max_address[1].col)
    /\ PrintFrame

\* one iteration of the loop; on the break cols is bound to the list
EnumerateStep ==
    /\ call.fn = "printf"
    /\ heap # <<>>
    /\ heap.col_num < MaxSteps
    /\ LET b == iterate_cols_until_body(heap)
       IN  IF b.break
           THEN /\ heap' = <<>>
                /\ result' = <<[fn |-> "iterate_cols_until", err |-> NoError,
                                cols |-> b.loop.cols_list]>>
           ELSE /\ heap' = b.loop
                /\ UNCHANGED result
    /\ PrintFrame

\* add and execute run between two printf calls, not inside one
PrintAddStep ==
    /\ call.fn = "printf"
    /\ heap = <<>>
    /\ \E col \in PrintCols, row \in TriedRows : Add(col, row, 1)

\* the payloads of one entry
PrintPayloads == {d \in Payloads : Len(d) = 1}

PrintExecuteStep ==
    /\ call.fn = "printf"
    /\ heap = <<>>
    /\ \E d \in PrintPayloads : Execute(d)

PrintCalls == {[fn |-> "printf"]}

PrintInit == LibInit(PrintCalls)

PrintNext == PrintAddStep \/ PrintExecuteStep \/ PrintfCall \/ EnumerateStep

PrintSpec == PrintInit /\ [][PrintNext]_vars

\* a loop that was entered keeps running
PrintLiveSpec == PrintSpec /\ WF_vars(EnumerateStep)

----------------------------------------------------------------------------
(* Address construction: sheets.add(Cell(Address(col, row, limits), value)) *)
(* with any row from 0 up to one past the row limit                         *)

ConstructedRows == 0..(RowMax + 1)

ConstructStep ==
    \E col \in TriedCols, row \in ConstructedRows, value \in Values : Add(col, row, value)

ConstructNext == ConstructStep

ConstructSpec == Init /\ [][ConstructNext]_vars

----------------------------------------------------------------------------
(* Properties of the grid store *)

Max(S) == CHOOSE x \in S : \A y \in S : y <= x

GridNext == [content |-> content', max_address |-> max_address']

\* the Address a payload key names, and whether Address.__new__ accepts it
KeyAddress(key) == Address(split_address_str(key).col, split_address_str(key).row)

InLimits(key) ==
    AddressNew(split_address_str(key).col, split_address_str(key).row, limits) = NoError

\* C1: after any insertions the corner has the largest column number and the
\* largest row of all addresses inserted, and it never decreases in either axis
CornerIsMax ==
    IF DOMAIN written = {}
    THEN max_address = <<>>
    ELSE /\ max_address # <<>>
         /\ n_col(max_address[1]) = Max({n_col(a) : a \in DOMAIN written})
         /\ max_address[1].row = Max({a.row : a \in DOMAIN written})

CornerNeverDecreases ==
    max_address # <<>> =>
        /\ max_address' # <<>>
        /\ n_col(max_address'[1]) >= n_col(max_address[1])
        /\ max_address'[1].row >= max_address[1].row

C1_CornerTracksMax == [](CornerIsMax) /\ [][CornerNeverDecreases]_vars

\* the corner was synthesised from two insertions: no cell is stored at it
C1_Witness ==
    /\ max_address # <<>>
    /\ max_address[1] \notin DOMAIN content
    /\ Cardinality(DOMAIN content) >= 2

\* C2: add on an occupied address raises the duplicate-cell error and leaves
\* every stored cell and the corner as they were
C2_DuplicateAddRejected ==
    [][\A col \in TriedCols, row \in TriedRows, value \in Values :
          (op' = "add" /\ Address(col, row) \in DOMAIN content /\ Add(col, row, value)) =>
              /\ err' = DuplicateCell
              /\ content' = content
              /\ max_address' = max_address]_vars

C2_Witness == op = "add" /\ err = DuplicateCell /\ content # EmptyDict

\* C3: execute of a Fill whose payload holds an out-of-limits address raises
\* nothing and writes every other entry, those after the failing one included
C3_SkipsOnlyBadEntry ==
    [][\A d \in Payloads :
          (op' = "execute" /\ (\E i \in 1..Len(d) : ~InLimits(d[i].key)) /\ Execute(d)) =>
              /\ err' = NoError
              /\ \A i \in 1..Len(d) : InLimits(d[i].key) =>
                    /\ KeyAddress(d[i].key) \in DOMAIN content'
                    /\ content'[KeyAddress(d[i].key)].value = d[i].val]_vars

\* C4: execute of a Fill at an occupied address raises nothing and overwrites:
\* get then returns the new value, cells outside the payload are unchanged
C4_FillOverwrites ==
    [][\A d \in Payloads :
          (/\ op' = "execute"
           /\ \E i \in 1..Len(d) : KeyAddress(d[i].key) \in DOMAIN content
           /\ Execute(d)) =>
              /\ err' = NoError
              /\ \A i \in 1..Len(d) : KeyAddress(d[i].key) \in DOMAIN content =>
                    /\ get(GridNext, KeyAddress(d[i].key)).err = NoError
                    /\ get(GridNext, KeyAddress(d[i].key)).ret[1].value = d[i].val
              /\ \A a \in DOMAIN content :
                    a \notin {KeyAddress(d[i].key) : i \in 1..Len(d)} =>
                        content'[a] = content[a]]_vars

\* C5: get returns the cell most recently written at the address, raises the
\* not-found error for an address never written, and changes nothing
C5_GetReturnsLastWritten ==
    [][\A col \in TriedCols, row \in TriedRows :
          (op' = "get" /\ AddressNew(col, row, limits) = NoError /\ Get(col, row)) =>
              /\ IF Address(col, row) \in DOMAIN written
                 THEN /\ err' = NoError
                      /\ ret' # <<>>
                      /\ ret'[1].address = Address(col, row)
                      /\ ret'[1].value = written[Address(col, row)]
                 ELSE /\ err' = MissingCell
                      /\ ret' = <<>>
              /\ content' = content
              /\ max_address' = max_address]_vars

\* get returned a cell of a grid where an address was never written
C5_Witness ==
    /\ op = "get"
    /\ ret # <<>>
    /\ err = NoError
    /\ Cardinality(DOMAIN written) >= 2
    /\ \E col \in TriedCols, row \in TriedRows :
          /\ AddressNew(col, row, limits) = NoError
          /\ Address(col, row) \notin DOMAIN written

----------------------------------------------------------------------------
(* Properties of the fillers and of select *)

\* the number of leading indexes 0..m-1 of an n-address selection whose value
\* f[i] passes the test ok
PrefixLen(n, ok(_)) ==
    CHOOSE m \in 0..n : (\A i \in 0..(m - 1) : ok(i)) /\ (m = n \/ ~ok(m))

\* the payload maps the first m selected addresses to f(0), ..., f(m-1) and
\* holds none of the later ones
MapsPrefix(m, f(_)) ==
    /\ \A i \in 0..(m - 1) :
          /\ HasKey(dct, addresses_str[i + 1])
          /\ Lookup(dct, addresses_str[i + 1]) = f(i)
    /\ \A i \in m..(Len(addresses_str) - 1) : ~HasKey(dct, addresses_str[i + 1])

\* C6: descending_int with stop <= start maps the i-th address to
\* start - step*i for the longest prefix of values >= stop, and no other address
C6_DescendingStopsAtStop ==
    (fill_in.fn = "descending_int" /\ fill_in.stop # <<>> /\ fill_in.stop[1] <= fill_in.start) =>
        LET value(i) == fill_in.start - fill_in.step * i
            ok(i) == value(i) >= fill_in.stop[1]
        IN  /\ fill_err = NoError
            /\ MapsPrefix(PrefixLen(Len(addresses_str), ok), value)

\* C7: ascending_int with stop >= start maps the i-th address to
\* start + step*i for the longest prefix of values <= stop, no later address,
\* and no value above stop
C7_AscendingStopsAtStop ==
    (fill_in.fn = "ascending_int" /\ fill_in.stop # <<>> /\ fill_in.stop[1] >= fill_in.start) =>
        LET value(i) == fill_in.start + fill_in.step * i
            ok(i) == value(i) <= fill_in.stop[1]
        IN  /\ fill_err = NoError
            /\ MapsPrefix(PrefixLen(Len(addresses_str), ok), value)
            /\ \A j \in 1..Len(dct) : dct[j].val <= fill_in.stop[1]

\* C8: fill raises when the number of values is not the number n of selected
\* addresses; otherwise the payload has exactly the n addresses as keys and
\* maps the i-th address to the i-th value
C8_FillMapsInOrder ==
    (fill_in.fn = "fill") =>
        IF Len(fill_in.values) # Len(addresses_str)
        THEN fill_err # NoError
        ELSE /\ fill_err = NoError
             /\ Len(dct) = Len(addresses_str)
             /\ Keys(dct) = Range(addresses_str)
             /\ \A i \in 1..Len(addresses_str) :
                   Lookup(dct, addresses_str[i]) = fill_in.values[i]

\* the string s is the address of column number n and row r
IsAddressAt(s, n, r) == n >= 1 /\ r >= 1 /\ s = ColLabel(n) \o Str(r)

\* C9: a Line select with count k yields k+1 addresses, the i-th being the
\* anchor moved i steps in the direction
C9_LineFromAnchor ==
    \A c \in 1..MaxAnchor, r \in 1..MaxAnchor, d \in Directions, k \in 0..MaxCount :
        (/\ sel_in = [address_range |-> ColLabel(c) \o Str(r), direction |-> <<d>>,
                      number |-> <<k>>]
         /\ sel_err # "pending") =>
            /\ sel_err = NoError
            /\ Len(addresses_str) = k + 1
            /\ \A i \in 0..k :
                  CASE d = "Left"  -> IsAddressAt(addresses_str[i + 1], c - i, r)
                    [] d = "Right" -> IsAddressAt(addresses_str[i + 1], c + i, r)
                    [] d = "Up"    -> IsAddressAt(addresses_str[i + 1], c, r - i)
                    [] d = "Down"  -> IsAddressAt(addresses_str[i + 1], c, r + i)

\* C10: "X-Y:r" yields the addresses of columns X..Y at row r in ascending
\* column order, "C:a-b" those of rows a..b on column C in ascending row order
C10_OneDimRanges ==
    /\ \A x \in RangeCols, y \in RangeCols, r \in 0..MaxAnchor :
          (/\ sel_in = [address_range |-> ColRangeExpr(x, y, r), direction |-> <<>>,
                        number |-> <<>>]
           /\ sel_err # "pending") =>
              /\ sel_err = NoError
              /\ addresses_str =
                    [i \in 1..(IF y >= x THEN y - x + 1 ELSE 0) |-> ColLabel(x + i - 1) \o Str(r)]
    /\ \A c \in 1..MaxAnchor, a \in 0..(MaxAnchor + 1), b \in 0..(MaxAnchor + 1) :
          (/\ sel_in = [address_range |-> RowRangeExpr(c, a, b), direction |-> <<>>,
                        number |-> <<>>]
           /\ sel_err # "pending") =>
              /\ sel_err = NoError
              /\ addresses_str =
                    [i \in 1..(IF b >= a THEN b - a + 1 ELSE 0) |-> ColLabel(c) \o Str(a + i - 1)]

\* a column range running from Z into the two-letter labels was selected
C10_Witness ==
    /\ sel_err = NoError
    /\ select_mode = "OneDim"
    /\ sel_in.address_range = ColRangeExpr(26, 27, 1)
    /\ addresses_str = <<<<"Z", "1">>, <<"A", "A", "1">>>>

\* C11: whenever the two directions of a Rectangle select lie on the same axis,
\* the call raises an error, for every anchor and every pair of integer counts;
\* it never returns a selection.
C11_SameAxisRaises ==
    (/\ sel_err # "pending"
     /\ Len(sel_in.direction) = 2
     /\ Len(sel_in.number) = 2
     /\ \/ (sel_in.direction[1] \in Horizontal /\ sel_in.direction[2] \in Horizontal)
        \/ (sel_in.direction[1] \in Vertical /\ sel_in.direction[2] \in Vertical))
    => sel_err # NoError

\* the labels the claim names, written out
NamedLabels ==
    [n \in {1, 26, 27, 52, 703} |->
        CASE n = 1   -> <<"A">>
          [] n = 26  -> <<"Z">>
          [] n = 27  -> <<"A", "A">>
          [] n = 52  -> <<"A", "Z">>
          [] n = 703 -> <<"A", "A", "A">>]

\* C12: for every n in 1..1000 the label get_col_by_num(n) consists only of
\* the letters A-Z and the label-to-number fold of it returns n; 1 -> A,
\* 26 -> Z, 27 -> AA, 52 -> AZ, 703 -> AAA.
C12_ColumnCodecRoundTrip ==
    (call.fn = "get_col_by_num" /\ result # <<>>) =>
        /\ result[1].label # <<>>
        /\ \A i \in 1..Len(result[1].label) : result[1].label[i] \in Range(valid_chars)
        /\ result[1].back = call.num
        /\ call.num \in DOMAIN NamedLabels => result[1].label = NamedLabels[call.num]

C12_Witness ==
    /\ call.fn = "get_col_by_num"
    /\ call.num = 703
    /\ result = <<[label |-> <<"A", "A", "A">>, back |-> 703]>>

\* an address the claim says cannot be constructed against the grid's limits
BeyondLimitsOrRowZero(col, row) ==
    \/ get_col_num(col) > limits.col
    \/ row > limits.row
    \/ row = 0

\* C13: constructing a bound Address raises for every (column, row) whose
\* column number exceeds the column maximum, whose row exceeds the row
\* maximum, or whose row is 0; no such Address is ever a key of the grid map.
C13_BoundAddressChecked ==
    /\ [](\A a \in DOMAIN content : ~BeyondLimitsOrRowZero(a.col, a.row))
    /\ [][\A col \in TriedCols, row \in ConstructedRows, value \in Values :
            (op' = "add" /\ BeyondLimitsOrRowZero(col, row) /\ Add(col, row, value))
                => (err' = "NameError" /\ content' = content)]_vars

----------------------------------------------------------------------------
(* Properties of the console loop *)

\* the feedback line that tells the operator to deselect first
DeselectFirst(cmd) ==
    Msg("Cannot use {} following select. Please use deselect to use {}",
        <<Commands[cmd].name, Commands[cmd].name>>)

\* C14: in every iteration that starts with an active selection, a command
\* other than get is not executed: the iteration only sets the feedback line
\* telling the operator to deselect first, and the grid, the width overrides
\* and the selection stay unchanged.
C14_SelectionBlocksCommands ==
    [][\A args \in ConsoleLines :
        (/\ run_state = "running"
         /\ prev_params # <<>>
         /\ ask_input_command(args).raised = NoRaise
         /\ ask_input_command(args).cmd # "Get"
         /\ Iterate(args))
        => (/\ prev_print' = DeselectFirst(ask_input_command(args).cmd)
            /\ run_state' = "running"
            /\ prev_params' = prev_params
            /\ cols_width' = cols_width
            /\ content' = content
            /\ max_address' = max_address)]_vars

MustSelectFirst == Msg("Must select at least one cell before using: {}", <<Token("Get")>>)

NothingToDeselect == Msg("Nothing to deselect: {}", <<Token("Deselect")>>)

ConsoleStateUnchanged ==
    /\ prev_params' = prev_params
    /\ cols_width' = cols_width
    /\ content' = content
    /\ max_address' = max_address
    /\ run_state' = run_state

\* C15: a deselect issued while a selection is active clears the selection,
\* so that a get in the next iteration reports the nothing-selected error; a
\* deselect or a get issued with no active selection reports an error as the
\* feedback line and leaves the console state unchanged.
C15_DeselectClearsSelection ==
    [][/\ (run_state = "running" /\ prev_params # <<>> /\ Iterate(<<Token("Deselect")>>))
          => /\ prev_params' = <<>>
             /\ run_state' = "running"
             /\ run_iteration([content |-> content', max_address |-> max_address'],
                              cols_width', prev_params', prev_print',
                              <<Token("Get")>>).prev_print = MustSelectFirst
       /\ (run_state = "running" /\ prev_params = <<>> /\ Iterate(<<Token("Deselect")>>))
          => (prev_print' = NothingToDeselect /\ ConsoleStateUnchanged)
       /\ (run_state = "running" /\ prev_params = <<>> /\ Iterate(<<Token("Get")>>))
          => (prev_print' = MustSelectFirst /\ ConsoleStateUnchanged)]_vars

\* a deselect has cleared a selection of two cells
C15_Witness ==
    /\ run_state = "running"
    /\ prev_params = <<>>
    /\ prev_print = Msg("Deselected {} cells: {}", <<Str(2), Token("Deselect")>>)

\* the tokens after the command word, by the kind the parser gives them
FlagTokens(args) ==
    {args[i] : i \in {j \in 2..Len(args) :
                        Len(args[j]) >= 2 /\ args[j][1] = "-" /\ args[j][2] # "-"}}

DirectionTokens(args) ==
    {args[i] : i \in {j \in 2..Len(args) :
                        Len(args[j]) >= 2 /\ args[j][1] = "-" /\ args[j][2] = "-"}}

ParamCount(args) ==
    Cardinality({j \in 2..Len(args) : Len(args[j]) >= 1 /\ args[j][1] # "-"})

\* a line whose first word is a command with a declared allowance and whose
\* flags or number of parameters fall outside that allowance
OutsideAllowance(args) ==
    /\ \A j \in 2..Len(args) : Len(args[j]) >= 1 /\ args[j] # <<"-">>
    /\ \E c \in {"Exit", "Get", "Col", "Select", "Deselect"} :
          /\ args[1] = Commands[c].name
          /\ \/ ~(FlagTokens(args) \subseteq Commands[c].argc)
             \/ ~(DirectionTokens(args) \subseteq Commands[c].argv)
             \/ ParamCount(args) < Commands[c].param_req[1]
             \/ ParamCount(args) >= Commands[c].param_req[2]

ViolationTexts ==
    {"Unrecognized argc: {}", "Unrecognized argv: {}",
     "The command does not meat param amount", "{} must be empty at {} command"}

\* C16: a line with a recognised command whose flags or parameter count are
\* outside the command's allowance (col with no or one parameter, get with a
\* flag) does not end the loop: the violation becomes the feedback line and
\* the grid, the widths and the selection stay as they were.
C16_ViolationBecomesFeedback ==
    [][\A args \in ConsoleLines :
          (run_state = "running" /\ OutsideAllowance(args) /\ Iterate(args))
          => /\ run_state' = "running"
             /\ prev_print'.text \in ViolationTexts
             /\ content' = content
             /\ max_address' = max_address
             /\ cols_width' = cols_width
             /\ prev_params' = prev_params]_vars

\* the stored cells whose address is written by one of the strings addrs, in
\* the order of addrs
StoredOn(g, addrs) ==
    LET written_at(s) == \E k \in DOMAIN g.content : k.col \o Str(k.row) = s
        found == SelectSeq(addrs, written_at)
    IN  [i \in 1..Len(found) |->
            g.content[CHOOSE k \in DOMAIN g.content : k.col \o Str(k.row) = found[i]]]

\* the anchor is accepted by the select command: the grid has a corner and
\* the anchor is an address within it
ValidAnchor(a) ==
    /\ max_address # <<>>
    /\ is_valid_address_str(a, <<max_address[1].col, max_address[1].row>>)

SelectLine(d, a, n) == <<Token("Select"), <<"-", "1">>, d, a, n>>

\* C17: select -1 --<dir> <address> <length> with a valid anchor and a
\* non-negative length completes without ending the loop and records as the
\* selection exactly the stored cells on the line, in selection order;
\* addresses of the line that hold no cell, those beyond the limits
\* included, are skipped silently.
C17_SelectLineRecordsStoredCells ==
    [][\A d \in DirectionFlags, a \in AnchorTokens, n \in LengthTokens :
          (run_state = "running" /\ ValidAnchor(a) /\ Iterate(SelectLine(d, a, n)))
          => /\ run_state' = "running"
             /\ prev_params' =
                  <<StoredOn([content |-> content, max_address |-> max_address],
                             select(a, <<DirectionOf(SubSeq(d, 3, Len(d)))>>,
                                    <<ParseInt(n)>>).addresses_str)>>
             /\ content' = content
             /\ max_address' = max_address]_vars

\* the texts a cell of the grids shows: an empty cell, or a stored value
CellTexts == {<<>>} \cup {Str(c.value) : c \in ConsoleCells}

\* column col now has the override w and renders at it; every other column
\* keeps its override or the default; the cells and the corner are as before
OnlyOverrideChanged(col, w) ==
    /\ col \in DOMAIN cols_width'
    /\ cols_width'[col] = w
    /\ \A other \in (DOMAIN cols_width \cup DOMAIN cols_width') \ {col} :
          /\ other \in DOMAIN cols_width
          /\ other \in DOMAIN cols_width'
          /\ cols_width'[other] = cols_width[other]
    /\ \A c \in 1..ColMax :
          ColLabel(c) # col
          => width_of(cols_width', ColLabel(c)) = width_of(cols_width, ColLabel(c))
    /\ \A text \in CellTexts : Len(value_text(cols_width', col, text)) = w
    /\ Len(header_text(cols_width', col)) = w
    /\ number_of_dashes(cols_width', col) = w + 2
    /\ content' = content
    /\ max_address' = max_address

----------------------------------------------------------------------------
(* Properties of custom commands *)

\* the parameter string is of the declared type
MatchesDeclared(param, param_type) ==
    IF param_type.kind = "AddressParam"
    THEN is_valid_address_str(param, <<>>)
    ELSE coerce(param).type \in param_type.param_types

\* the call hands in only declared flags and one parameter per declared type
WellFormedCall ==
    /\ call.fn = "custom_call"
    /\ result # <<>>
    /\ call.argc \subseteq call.cmd.argc
    /\ call.argv \subseteq call.cmd.argv
    /\ Len(call.params) = Len(call.cmd.param_types)

\* C19: a custom command's call checks every positional parameter, in
\* order, against the declared type at the same position and invokes the
\* handler only after all of them match; a mismatch at any position raises
\* and the handler is not invoked. With (AddressParam, IntegerParam |
\* FloatParam), ["A1", "5"] is accepted and ["A1", "hello"] is rejected.
C19_EveryParamChecked ==
    WellFormedCall
    => IF \A i \in 1..Len(call.params) :
             MatchesDeclared(call.params[i], call.cmd.param_types[i])
       THEN result[1].invoked /\ result[1].raised = NoRaise
       ELSE ~result[1].invoked /\ result[1].raised.kind = "ValueError"

----------------------------------------------------------------------------
(* Properties of the Null singleton *)

\* C20: Null is a singleton for the whole process: once the module-level
\* Null exists, every further construction of its type raises, so there is
\* never more than one instance.
C20_NullSingleton == nulls <= 1

----------------------------------------------------------------------------
(* Properties of the date and time types *)

\* the number of days of month m of year y
DaysIn(m, y) ==
    IF m = 2 THEN (IF (y % 4 = 0 /\ y % 100 # 0) \/ y % 400 = 0 THEN 29 ELSE 28)
    ELSE IF m \in {4, 6, 9, 11} THEN 30
    ELSE 31

CalendarValid(d, m, y) == m \in 1..12 /\ d \in 1..DaysIn(m, y)

\* C21: Date(day, month, year), and DateTime on the same date, constructs
\* exactly for the dates of the calendar: 29 February only in a leap year,
\* no day above 29 in February, no day 31 in April, June, September and
\* November.
C21_DateConstructsIffValid ==
    (call.fn \in {"Date", "DateTime"} /\ result # <<>>)
    => (result[1].err = NoError <=> CalendarValid(call.d, call.m, call.y))

\* the hour a 12-hour clock shows for hour h
Hour12(h) == IF h = 0 THEN 12 ELSE IF h > 12 THEN h - 12 ELSE h

\* C22: a Time rendered in 12-hour mode shows hour 0 as 12, hours 13..23 as
\* h - 12 and hours 1..12 as themselves, each in two digits, then the
\* minutes, then " am" for hours 0..11 and " pm" for the others.
C22_TwelveHourRendering ==
    (call.fn = "Time" /\ result # <<>> /\ result[1].fn = "str" /\ result[1].format = "H12")
    => result[1].text =
         two_digits(Hour12(heap.time.h)) \o <<COLON>> \o two_digits(heap.time.m)
         \o (IF heap.time.h <= 11 THEN SUFFIX_AM ELSE SUFFIX_PM)

\* C28: switching a Time to another display format and back does not change
\* what the 24-hour format renders: whenever the Time is in 24-hour mode it
\* renders as a Time of the same hour and minute that was never switched.
C28_SwitchKeepsRendering ==
    (call.fn = "Time" /\ heap # <<>> /\ heap.time.display_format = "H24")
    => Time_str(heap.time).text
         = Time_str(Time_init(heap.time.h, heap.time.m, "H24")).text

----------------------------------------------------------------------------
(* Properties of Multiple *)

\* C23: choose(index) with an index outside 0..n-1 raises and leaves the
\* current selection as it was; with an index inside, it makes that
\* candidate the current selection, and the string form of the Multiple is
\* then the candidate's.
C23_ChooseChecksIndex ==
    [][\A index \in Indices :
          (heap # <<>> /\ Choose(index))
          => IF index \in 0..(Len(heap.multiple.values) - 1)
             THEN /\ result'[1].err = NoError
                  /\ heap'.multiple.current_value = <<heap.multiple.values[index + 1]>>
                  /\ Multiple_str(heap'.multiple) = Str(heap.multiple.values[index + 1])
             ELSE /\ result'[1].err # NoError
                  /\ heap'.multiple.current_value = heap.multiple.current_value]_vars

\* C26: after any choose, expand, remove and reposition calls the current
\* selection of a Multiple is unset or one of the candidates in its list.
C26_SelectionIsCandidate ==
    (call.fn = "Multiple" /\ heap # <<>>)
    => \/ heap.multiple.current_value = <<>>
       \/ heap.multiple.current_value[1] \in Range(heap.multiple.values)

\* the text the month takes in a month format
MonthFragment(m, month_display_format) ==
    CASE month_display_format = "INT"  -> two_digits(m)
      [] month_display_format = "STR"  -> SubSeq(months[m], 1, 3)
      [] month_display_format = "FSTR" -> months[m]

\* C24: after any change_month_display_format and change_year_display_format
\* calls a Date is never in a word month format and the 2-digit year format
\* at once, and it renders the month as its current month format says: the
\* number between slashes, the word between spaces.
C24_MonthAndYearFormatsAgree ==
    (call.fn = "DateFormats" /\ heap # <<>>)
    => LET date == heap.date
           sep == IF date.month_display_format = "INT" THEN <<SLASH>> ELSE <<" ">>
       IN  /\ ~(date.month_display_format \in {"STR", "FSTR"}
                /\ date.year_display_format = "CHAR2")
           /\ Date_str(date) =
                date.strdata[1] \o sep
                \o MonthFragment(date.m, date.month_display_format)
                \o sep \o date.strdata[3]

----------------------------------------------------------------------------
(* Validity of the selected addresses *)

\* the text is a column label of one letter or more followed by a row
\* number of 1 or more
ValidAddressText(s) ==
    \E k \in 1..(Len(s) - 1) :
        /\ \A i \in 1..k : s[i] \in Range(valid_chars)
        /\ \A i \in (k + 1)..Len(s) : isdigit(s[i])
        /\ ParseInt(SubSeq(s, k + 1, Len(s))) >= 1

ValidAnchors == {ColLabel(c) \o Str(r) : c \in 1..MaxAnchor, r \in 1..MaxAnchor}

PositiveRangeExprs ==
    {ColRangeExpr(x, y, r) : x \in RangeCols, y \in RangeCols, r \in 1..MaxAnchor}
    \cup {RowRangeExpr(c, a, b) : c \in 1..MaxAnchor, a \in 1..(MaxAnchor + 1),
                                  b \in 1..(MaxAnchor + 1)}
    \cup {TwoDimExpr(x, y, a, b) : x \in 1..MaxAnchor, y \in 1..MaxAnchor,
                                   a \in 1..MaxAnchor, b \in 1..MaxAnchor}

\* a Line select whose run leaves the sheet at column A or at row 1
LinePassesEdge ==
    /\ Len(sel_in.direction) = 1
    /\ Len(sel_in.number) = 1
    /\ LET p == split_address_str(sel_in.address_range)
       IN  \/ sel_in.direction[1] = "Left" /\ sel_in.number[1] >= get_col_num(p.col)
           \/ sel_in.direction[1] = "Up" /\ sel_in.number[1] >= p.row

\* C25: every address string select returns, for any of its shapes on a
\* valid anchor with non-negative counts, is a valid address: a column label
\* of column 1 or more and a row of 1 or more; a Left or Up run that would
\* pass column A or row 1 makes select raise.
C25_SelectedAddressesValid ==
    (/\ sel_err # "pending"
     /\ sel_in.address_range \in ValidAnchors \cup PositiveRangeExprs
     /\ \A i \in 1..Len(sel_in.number) : sel_in.number[i] >= 0)
    => /\ sel_err = NoError
          => \A i \in 1..Len(addresses_str) : ValidAddressText(addresses_str[i])
       /\ LinePassesEdge => sel_err # NoError

----------------------------------------------------------------------------
(* Unions of param types *)

\* the object still stands for its one class only
Atomic(name) ==
    \A type \in {"String", "Integer", "Float"} :
        accepts(heap[name], type) <=> type = ParamTypeObjects[name][1]

\* C27: building a union with | does not change its operands: after
\* IntegerParam | FloatParam, IntegerParam still accepts only Integer and
\* FloatParam only Float, and the same union of the two atomic objects can be
\* built a second time without the duplicate-type error.
C27_UnionKeepsOperands ==
    (call.fn = "ParamTypes" /\ heap # <<>>)
    => /\ \A name \in ParamTypeNames : Atomic(name)
       /\ (result[1].left \in ParamTypeNames /\ result[1].left # result[1].right)
          => result[1].err = NoError

----------------------------------------------------------------------------
(* Region format of one DateTime and the other instances *)

\* the unit list as the instance's own region calls alone leave it: each
\* call that changes the region swaps the first two entries
own_unit_words(self) ==
    IF self.region_format = "DEFAULT" THEN unit_words ELSE swap_first_two(unit_words)

\* C29: change_region_format on one DateTime affects only that instance: on
\* the second instance, change_display_format followed by rendering gives
\* the same instance, error and text whether or not change_region_format was
\* called on the first, that is the result obtained with the unit list that
\* the second instance's own calls leave.
C29_RegionFormatIsPerInstance ==
    [][(/\ call.fn = "DateTimes"
        /\ heap # <<>>
        /\ result'[1].fn = "change_display_format"
        /\ result'[1].on = "second")
       => LET r == DateTime_change_display_format(heap.second, result'[1].to,
                                                  own_unit_words(heap.second))
          IN  /\ heap'.second = r.self
              /\ result'[1].err = r.err
              /\ result'[1].text = DateTime_str(r.self)]_vars

----------------------------------------------------------------------------
(* Termination of printf *)

\* the enumeration returned the labels of columns 1 up to the corner's
ColsUpToCorner ==
    /\ heap = <<>>
    /\ result # <<>>
    /\ result[1].fn = "iterate_cols_until"
    /\ result[1].cols = [n \in 1..n_col(max_address[1]) |-> ColLabel(n)]

NamedCornerTerminates ==
    (call.fn = "printf" /\ heap # <<>> /\ heap.stop_col # <<>>) ~> ColsUpToCorner

\* the break of an enumeration towards the empty label is not taken, at the
\* iterations followed or at any column number up to MaxColNum: the stop
\* after MaxSteps iterations is the model's, the loop itself goes on
EmptyStopNeverBreaks ==
    /\ \A num \in 1..MaxColNum : get_col_by_num(num) # <<>>
    /\ (call.fn = "printf" /\ heap # <<>> /\ heap.stop_col = <<>>)
       => ~iterate_cols_until_body(heap).break

====
